---- MODULE Spec2Model ----
(***************************************************************************)
(* Process-orchestration supervisor of the OpenWork desktop shell:         *)
(* the engine / daemon / gateway-server / bot managers, the output         *)
(* multiplexer tasks and the engine_start / engine_stop / engine_info /    *)
(* owpenbot_* commands of packages/desktop/src-tauri.                      *)
(***************************************************************************)
EXTENDS Integers, Sequences, FiniteSets, TLC

(***************************************************************************)
(* Bounds of the model.                                                    *)
(***************************************************************************)
MaxProcs == 4
MaxCalls == 2
MaxChunks == 1
MaxExits == 1
\* the same, for the runs with two command threads
ConcProcs == 2
ConcCalls == 2
ConcChunks == 1
ConcExits == 1
\* truncate_output is always called with 8000; the cap is scaled down so
\* that a child can produce more than the cap within MaxChunks chunks.
OutputCap == 3
PoisonCalls == 2
PoisonProcs == 3
PoisonExits == 1
\* wait_for_openwrk: time counts in ticks of 200 ms, the sleep of one loop
\* iteration; engine_start passes a timeout of 10 000 ms, scaled down here
MaxTimeout == 3
\* the longest a health probe takes, in ticks
MaxProbeTicks == 1
\* the warm-up window of engine_start in direct mode: 2 s, counted in sleeps
\* of 150 ms and scaled down
WarmupTicks == 2
\* the runs of engine_start with its two waiting loops spelled out: one call,
\* which spawns at most the primary and the two secondaries
TimedProcs == 3
TimedCalls == 1
TimedChunks == 1
TimedExits == 1
\* resolve_engine_path: the most candidate files that exist at once
MaxFiles == 2
\* maybe_infer_xdg_home: the most marker files that exist at once
MaxMarkers == 2

Threads == {"t1", "t2"}
Pids == 1..MaxProcs
None == 0
NoCode == -1

(***************************************************************************)
(* Text.  A string is a sequence of characters; a character is one of the  *)
(* strings below.  "é" stands for a two-byte UTF-8 character, " " for      *)
(* white space.  Fixed message fragments count as one character.           *)
(***************************************************************************)
CharBytes(c) == IF c = "é" THEN 2 ELSE 1

IsSpace(c) == c = " "

RECURSIVE ByteLen(_)
ByteLen(s) == IF s = <<>> THEN 0 ELSE CharBytes(Head(s)) + ByteLen(Tail(s))

\* input.chars().skip(n).collect(); n is a usize, so a negative difference
\* wraps to a huge count in a release build and skips every character.
SkipChars(s, n) ==
    IF n < 0 \/ n >= Len(s) THEN <<>> ELSE SubSeq(s, n + 1, Len(s))

truncate_output(input, max_chars) ==
    IF ByteLen(input) <= max_chars
    THEN input
    ELSE SkipChars(input, Len(input) - max_chars)

RECURSIVE TrimStart(_)
TrimStart(s) ==
    IF s # <<>> /\ IsSpace(Head(s)) THEN TrimStart(Tail(s)) ELSE s

RECURSIVE TrimEnd(_)
TrimEnd(s) ==
    IF s # <<>> /\ IsSpace(s[Len(s)]) THEN TrimEnd(SubSeq(s, 1, Len(s) - 1)) ELSE s

Trim(s) == TrimEnd(TrimStart(s))

\* the n-th chunk written in a run: text ending in white space, then more text
ChunkAt(n) ==
    CASE n = 1 -> << "a", "b", "c", " " >>
      [] n = 2 -> << "d", "e" >>
      [] OTHER -> << "f" >>

Contains(text, part) ==
    \E i \in 0..(Len(text) - Len(part)) : SubSeq(text, i + 1, i + Len(part)) = part

IsSuffix(part, text) ==
    /\ Len(part) <= Len(text)
    /\ SubSeq(text, Len(text) - Len(part) + 1, Len(text)) = part

VARIABLES
    proc,          \* OS process table: pid -> [kind, status, call, mux]
    rx,            \* pid -> events of the process not yet received by its task
    engine,        \* EngineState
    openwrk,       \* OpenwrkState (daemon)
    openwork,      \* OpenworkServerState (gateway server)
    owpenbot,      \* OwpenbotState
    lock,          \* manager mutex -> holding thread or "free"
    output_state,  \* pid of a direct-mode engine -> OutputState of its start
    pc,            \* thread -> position in its command
    loc,           \* thread -> locals of its command
    ret,           \* thread -> what its last command returned
    calls,         \* commands begun so far
    chunks,        \* output chunks written so far
    exits,         \* children that ended on their own so far
    wrote,         \* history: pid -> what the process wrote per stream
    missed,        \* history: events a task received but could not apply
    cfg,           \* the limits of the run: commands per thread, calls, chunks, exits, procs
    wait,          \* a call of wait_for_openwrk: its locals, its probes, its result
    doctor,        \* a call of resolve_engine_path: its inputs and its result
    poison,        \* the managers whose mutex a panic has left poisoned
    xdg,           \* a call of maybe_infer_xdg_home: its inputs and its result
    trunc,         \* a call of truncate_output: its inputs and its result
    workspaces,    \* the workspace commands: the persisted state, the last result
    fs             \* the directories and files engine_start has created

vars == << proc, rx, engine, openwrk, openwork, owpenbot, lock, output_state,
           pc, loc, ret, calls, chunks, exits, wrote, missed, cfg, wait, doctor,
           poison, xdg, trunc, workspaces, fs >>

\* the variables of the calls that stand on their own
standalone == << xdg, trunc, workspaces >>

\* the variables of the supervisor
system == << proc, rx, engine, openwrk, openwork, owpenbot, lock, output_state,
             pc, loc, ret, calls, chunks, exits, wrote, missed, cfg, poison, fs >>

env == << exits, cfg, wait, doctor, poison, xdg, trunc, workspaces, fs >>

Kinds == {"engine", "openwrk", "openwork", "owpenbot"}

\* the tauri commands of the model
Commands == {"engine_start", "engine_stop", "engine_info",
             "owpenbot_start", "owpenbot_stop", "owpenbot_info"}

NoProc == [kind |-> "none", status |-> "none", call |-> 0, by |-> "none", mux |-> FALSE,
           username |-> << >>, password |-> << >>]

\* #[derive(Default)] of the state structs
EngineState0 ==
    [child |-> None, child_exited |-> FALSE, runtime |-> "direct",
     base_url |-> None, opencode_username |-> << >>, opencode_password |-> << >>,
     last_stdout |-> <<>>, last_stderr |-> <<>>]

OpenwrkState0 ==
    [child |-> None, child_exited |-> FALSE, data_dir |-> None,
     last_stdout |-> <<>>, last_stderr |-> <<>>]

OpenworkState0 ==
    [child |-> None, child_exited |-> FALSE, base_url |-> None,
     last_stdout |-> <<>>, last_stderr |-> <<>>]

OwpenbotState0 ==
    [child |-> None, child_exited |-> FALSE, workspace_path |-> None,
     opencode_url |-> None, last_stdout |-> <<>>, last_stderr |-> <<>>]

OutputState0 == [stdout |-> <<>>, stderr |-> <<>>, exited |-> FALSE, exit_code |-> NoCode]

\* the project directory of the runs that do not vary it
WorkDir == << "w" >>

ProjectDirRequired == << "projectDir is required" >>

\* the mutant of project_dir_required: the argument is not trimmed first
project_dir_required_untrimmed(project_dir) == project_dir = <<>>

\* project_dir.trim().is_empty()
project_dir_required(project_dir) == Trim(project_dir) = <<>>

\* create_dir_all(project_dir) and the opencode.json written when the project
\* has no configuration yet
ProjectFiles(project_dir) == {<< "dir", project_dir >>, << "opencode.json", project_dir >>}

\* an environment variable that is not set; a set one is << value >>
Unset == << "unset" >>

\* Option<String>: None is the empty sequence, Some(x) is << x >>
NoCred == << >>

AsciiLower(s) ==
    CASE s = "TRUE" -> "true"
      [] s = "True" -> "true"
      [] OTHER -> s

\* the mutant of enable_auth: authentication is off when the variable is unset
enable_auth_off_by_default(value) ==
    IF value = Unset THEN FALSE
    ELSE value[1] = "1" \/ AsciiLower(value[1]) = "true"

\* env::var("OPENWORK_OPENCODE_AUTH").ok().map(..).unwrap_or(true)
enable_auth(value) ==
    IF value = Unset THEN TRUE
    ELSE value[1] = "1" \/ AsciiLower(value[1]) = "true"

OPENCODE_USER == "opencode"

\* the generated pair: the fixed user name and a Uuid::new_v4 per call, which
\* is the number of the call here
opencode_username(value) == IF enable_auth(value) THEN << OPENCODE_USER >> ELSE NoCred

opencode_password(value, id) == IF enable_auth(value) THEN << id >> ELSE NoCred

\* warm: the iterations of the warm-up loop that have slept
Loc0 == [cmd |-> "none", id |-> 0, runtime |-> "direct", child |-> None,
         health_port |-> FALSE, pend |-> <<>>, warm |-> 0,
         username |-> NoCred, password |-> NoCred, project_dir |-> <<>>]

\* hist: the calls the thread has completed so far, the last one last
Ret0 == [cmd |-> "none", id |-> 0, ok |-> TRUE, err |-> <<>>, running |-> FALSE,
         base_url |-> None, pid |-> None, last_stdout |-> <<>>, last_stderr |-> <<>>,
         hist |-> <<>>]

\* no call of wait_for_openwrk is under way
Wait0 == [pc |-> "idle", call |-> 0, timeout |-> 0, elapsed |-> 0,
          last_error |-> <<>>, probes |-> <<>>, ok |-> FALSE, err |-> <<>>]

\* no call of resolve_engine_path is under way
Doctor0 == [pc |-> "idle"]

\* no call of maybe_infer_xdg_home, of truncate_output or of a workspace
\* command is under way
Xdg0 == [pc |-> "idle"]

Trunc0 == [pc |-> "idle"]

Workspaces0 == [pc |-> "idle"]

Standalone0 == xdg = Xdg0 /\ trunc = Trunc0 /\ workspaces = Workspaces0

Start ==
    /\ proc = [p \in Pids |-> NoProc]
    /\ rx = [p \in Pids |-> <<>>]
    /\ engine = EngineState0
    /\ openwrk = OpenwrkState0
    /\ openwork = OpenworkState0
    /\ owpenbot = OwpenbotState0
    /\ lock = [k \in Kinds |-> "free"]
    /\ output_state = [p \in Pids |-> OutputState0]
    /\ pc = [t \in Threads |-> "idle"]
    /\ loc = [t \in Threads |-> Loc0]
    /\ ret = [t \in Threads |-> Ret0]
    /\ calls = 0
    /\ chunks = 0
    /\ wrote = [p \in Pids |-> [stdout |-> <<>>, stderr |-> <<>>]]
    /\ exits = 0
    /\ missed = {}
    /\ poison = {}
    /\ fs = {}

\* one command thread: the commands run one after the other
Init ==
    /\ Start
    /\ wait = Wait0
    /\ doctor = Doctor0
    /\ Standalone0
    /\ cfg = [cmds |-> [t \in Threads |-> IF t = "t1" THEN Commands ELSE {}],
              calls |-> MaxCalls, chunks |-> MaxChunks,
              exits |-> MaxExits, procs |-> MaxProcs, auth |-> Unset,
              dirs |-> {WorkDir}]

\* two command threads: one starts the engine while the other one stops it
InitConc ==
    /\ Start
    /\ wait = Wait0
    /\ doctor = Doctor0
    /\ Standalone0
    /\ cfg = [cmds |-> [t \in Threads |-> IF t = "t1" THEN {"engine_start"}
                                           ELSE {"engine_stop"}],
              calls |-> ConcCalls, chunks |-> ConcChunks,
              exits |-> ConcExits, procs |-> ConcProcs, auth |-> Unset,
              dirs |-> {WorkDir}]

\* one command thread, children that write nothing, and mutexes that a panic
\* can poison
InitPoison ==
    /\ Start
    /\ wait = Wait0
    /\ doctor = Doctor0
    /\ Standalone0
    /\ cfg = [cmds |-> [t \in Threads |-> IF t = "t1" THEN Commands ELSE {}],
              calls |-> PoisonCalls, chunks |-> 0,
              exits |-> PoisonExits, procs |-> PoisonProcs, auth |-> Unset,
              dirs |-> {WorkDir}]

(***************************************************************************)
(* Operating-system processes and their event streams.                     *)
(***************************************************************************)
Spawned == {p \in Pids : proc[p].kind # "none"}

Alive(p) == proc[p].status = "alive"

\* still occupying its pid, ports and lock files
NotTerminated(p) == proc[p].status \in {"alive", "killed"}

FreePid == Cardinality(Spawned) + 1

CanSpawn == FreePid <= cfg.procs

Terminated(code) == [type |-> "Terminated", data |-> code]

\* the pair of process table and event streams, as one value
Os == [proc |-> proc, rx |-> rx]

\* Command::spawn: a new process and its event stream
SpawnOs(os, p, kind, t, mux) ==
    [proc |-> [os.proc EXCEPT ![p] = [kind |-> kind, status |-> "alive", call |-> loc[t].id,
                                      by |-> loc[t].cmd, mux |-> mux,
                                      username |-> loc[t].username,
                                      password |-> loc[t].password]],
     rx |-> os.rx]

\* the process ends: the waiting thread of its stream sends Terminated last
EndOs(os, p, code) ==
    [proc |-> [os.proc EXCEPT ![p].status = "dead"],
     rx |-> [os.rx EXCEPT ![p] = Append(@, Terminated(code))]]

\* std::process::Child::kill followed by wait: returns once the process is gone
KillWaitOs(os, p) ==
    IF p # None /\ os.proc[p].status \in {"alive", "killed"} THEN EndOs(os, p, NoCode) ELSE os

\* CommandChild::kill: sends the signal and returns
KillOs(os, p) ==
    IF p # None /\ os.proc[p].status = "alive"
    THEN [os EXCEPT !.proc[p].status = "killed"]
    ELSE os

\* a child writes a chunk to stdout or stderr
ProcOutput(p, stream) ==
    /\ Alive(p)
    /\ chunks < cfg.chunks
    /\ chunks' = chunks + 1
    /\ rx' = [rx EXCEPT ![p] = Append(@, [type |-> stream, data |-> ChunkAt(chunks + 1)])]
    /\ wrote' = [wrote EXCEPT ![p][IF stream = "Stdout" THEN "stdout" ELSE "stderr"] =
                    @ \o ChunkAt(chunks + 1)]
    /\ UNCHANGED << proc, engine, openwrk, openwork, owpenbot, lock, output_state,
                    pc, loc, ret, calls, missed, env >>

\* a child exits on its own or is killed from outside the application
ProcExit(p, ev) ==
    /\ Alive(p)
    /\ exits < cfg.exits
    /\ exits' = exits + 1
    /\ proc' = [proc EXCEPT ![p].status = "dead"]
    /\ rx' = [rx EXCEPT ![p] = Append(@, ev)]
    /\ UNCHANGED << engine, openwrk, openwork, owpenbot, lock, output_state,
                    pc, loc, ret, calls, chunks, wrote, missed, cfg, wait, doctor,
                    poison, standalone, fs >>

\* a process that was sent the kill signal terminates
ProcDie(p) ==
    /\ proc[p].status = "killed"
    /\ proc' = EndOs(Os, p, NoCode).proc
    /\ rx' = EndOs(Os, p, NoCode).rx
    /\ UNCHANGED << engine, openwrk, openwork, owpenbot, lock, output_state,
                    pc, loc, ret, calls, chunks, wrote, missed, env >>

(***************************************************************************)
(* Service managers.                                                       *)
(***************************************************************************)
\* child.try_wait() reports an exit status once the process has terminated
TryWaitExited(pr, p) == pr[p].status = "dead"

\* a snapshot_locked that forgets the connection info together with the handle
\* of a child that has exited (C27 tells them apart)
Engine_snapshot_forgets(state, pr) ==
    IF state.child # None /\ TryWaitExited(pr, state.child)
    THEN [state EXCEPT !.child = None, !.base_url = None]
    ELSE state

\* EngineManager::snapshot_locked: the state it leaves
Engine_snapshot_locked(state, pr) ==
    IF state.child # None /\ TryWaitExited(pr, state.child)
    THEN [state EXCEPT !.child = None]
    ELSE state

\* EngineManager::snapshot_locked: the EngineInfo it returns
Engine_snapshot_info(state, pr) ==
    LET running == state.child # None /\ ~TryWaitExited(pr, state.child) IN
    [running |-> running,
     base_url |-> state.base_url,
     pid |-> IF running THEN state.child ELSE None,
     last_stdout |-> state.last_stdout,
     last_stderr |-> state.last_stderr]

\* a stop_locked that leaves the last error output behind (C12 tells them apart)
Engine_stop_keeps_stderr(state) ==
    [state EXCEPT !.child = None, !.base_url = None, !.last_stdout = <<>>]

\* EngineManager::stop_locked: the state it leaves
Engine_stop_locked(state) ==
    [state EXCEPT !.child = None, !.base_url = None,
                  !.last_stdout = <<>>, !.last_stderr = <<>>]

\* The credentials that engine_start stores in the engine state (lines 368-369,
\* 555-556) are fields the EngineState of engine/manager.rs does not declare
\* yet; their reset on stop follows the description of stop (kill + state
\* reset of child handle, connection info, credentials and output buffers).
Engine_stop_credentials(state) ==
    [state EXCEPT !.opencode_username = NoCred, !.opencode_password = NoCred]

\* EngineManager::stop_locked: child.kill(); child.wait()
Engine_stop_os(state, os) == KillWaitOs(os, state.child)

\* OwpenbotManager::snapshot_locked: the state it leaves
Owpenbot_snapshot_locked(state) ==
    IF state.child # None /\ state.child_exited
    THEN [state EXCEPT !.child = None]
    ELSE state

\* OwpenbotManager::snapshot_locked: the OwpenbotInfo it returns
Owpenbot_snapshot_info(state) ==
    LET running == state.child # None /\ ~state.child_exited IN
    [running |-> running,
     base_url |-> state.opencode_url,
     pid |-> IF running THEN state.child ELSE None,
     last_stdout |-> state.last_stdout,
     last_stderr |-> state.last_stderr]

\* a stop_locked that forgets the connection information (C5 tells them apart)
Owpenbot_stop_keeps_url(state) ==
    [state EXCEPT !.child = None, !.child_exited = TRUE,
                  !.workspace_path = None,
                  !.last_stdout = <<>>, !.last_stderr = <<>>]

\* OwpenbotManager::stop_locked: the state it leaves
Owpenbot_stop_locked(state) ==
    [state EXCEPT !.child = None, !.child_exited = TRUE,
                  !.workspace_path = None, !.opencode_url = None,
                  !.last_stdout = <<>>, !.last_stderr = <<>>]

\* OwpenbotManager::stop_locked: child.kill()
Owpenbot_stop_os(state, os) == KillOs(os, state.child)

\* OpenwrkManager::stop_locked: kill, wait, reset
Openwrk_stop_locked(state) == OpenwrkState0

Openwrk_stop_os(state, os) == KillWaitOs(os, state.child)

\* OpenworkServerManager::stop_locked: kill, wait, reset
Openwork_stop_locked(state) == OpenworkState0

Openwork_stop_os(state, os) == KillWaitOs(os, state.child)

(***************************************************************************)
(* Output multiplexer tasks: one per spawned child, draining rx[p].        *)
(***************************************************************************)
\* state.last_stdout.as_deref().unwrap_or_default().to_string() + &line, truncated
AppendOutput(buf, line) == truncate_output(buf \o line, OutputCap)

\* a panic under a guard poisons the mutex: every later lock() and try_lock()
\* of it returns Err
Poisoned(k) == k \in poison

\* Mutex::try_lock succeeds only when nobody holds the mutex and no panic has
\* poisoned it
TryLock(k) == lock[k] = "free" /\ ~Poisoned(k)

Received(p) == proc[p].mux /\ rx[p] # <<>>

NoteMissed(p, k, ev) ==
    missed' = IF TryLock(k) THEN missed ELSE missed \cup {[pid |-> p, type |-> ev.type]}

\* a task that takes the engine lock with lock() instead of try_lock(): it
\* waits while a command holds the lock (C8 tells them apart)
MuxEngine_lock(p) ==
    /\ proc[p].kind = "engine"
    /\ Received(p)
    /\ lock["engine"] = "free"
    /\ LET ev == Head(rx[p])
           out == output_state[p]
       IN /\ rx' = [rx EXCEPT ![p] = Tail(@)]
          /\ output_state' = [output_state EXCEPT ![p] =
                CASE ev.type = "Stdout" -> [out EXCEPT !.stdout = @ \o ev.data]
                  [] ev.type = "Stderr" -> [out EXCEPT !.stderr = @ \o ev.data]
                  [] ev.type = "Terminated" -> [out EXCEPT !.exited = TRUE, !.exit_code = ev.data]
                  [] ev.type = "Error" -> [out EXCEPT !.exited = TRUE, !.exit_code = -1,
                                                      !.stderr = @ \o ev.data]]
          /\ engine' =
                CASE ev.type = "Stdout" ->
                        [engine EXCEPT !.last_stdout = AppendOutput(@, ev.data)]
                  [] ev.type = "Stderr" ->
                        [engine EXCEPT !.last_stderr = AppendOutput(@, ev.data)]
                  [] ev.type = "Terminated" -> [engine EXCEPT !.child_exited = TRUE]
                  [] ev.type = "Error" -> [engine EXCEPT !.child_exited = TRUE]
          /\ UNCHANGED missed
    /\ UNCHANGED << proc, openwrk, openwork, owpenbot, lock, pc, loc, ret, calls,
                    chunks, wrote, env >>

\* the task spawned by engine_start in direct mode
MuxEngine(p) ==
    /\ proc[p].kind = "engine"
    /\ Received(p)
    /\ LET ev == Head(rx[p])
           out == output_state[p]
       IN /\ rx' = [rx EXCEPT ![p] = Tail(@)]
          /\ output_state' = [output_state EXCEPT ![p] =
                CASE ev.type = "Stdout" -> [out EXCEPT !.stdout = @ \o ev.data]
                  [] ev.type = "Stderr" -> [out EXCEPT !.stderr = @ \o ev.data]
                  [] ev.type = "Terminated" -> [out EXCEPT !.exited = TRUE, !.exit_code = ev.data]
                  [] ev.type = "Error" -> [out EXCEPT !.exited = TRUE, !.exit_code = -1,
                                                      !.stderr = @ \o ev.data]]
          /\ engine' =
                IF ~TryLock("engine") THEN engine
                ELSE CASE ev.type = "Stdout" ->
                            [engine EXCEPT !.last_stdout = AppendOutput(@, ev.data)]
                       [] ev.type = "Stderr" ->
                            [engine EXCEPT !.last_stderr = AppendOutput(@, ev.data)]
                       [] ev.type = "Terminated" -> [engine EXCEPT !.child_exited = TRUE]
                       [] ev.type = "Error" -> [engine EXCEPT !.child_exited = TRUE]
          /\ NoteMissed(p, "engine", ev)
    /\ UNCHANGED << proc, openwrk, openwork, owpenbot, lock, pc, loc, ret, calls,
                    chunks, wrote, env >>

\* the task spawned by engine_start in daemon mode
MuxOpenwrk(p) ==
    /\ proc[p].kind = "openwrk"
    /\ Received(p)
    /\ LET ev == Head(rx[p])
       IN /\ rx' = [rx EXCEPT ![p] = Tail(@)]
          /\ openwrk' =
                IF ~TryLock("openwrk") THEN openwrk
                ELSE CASE ev.type = "Stdout" ->
                            [openwrk EXCEPT !.last_stdout = AppendOutput(@, ev.data)]
                       [] ev.type = "Stderr" ->
                            [openwrk EXCEPT !.last_stderr = AppendOutput(@, ev.data)]
                       [] ev.type = "Terminated" -> [openwrk EXCEPT !.child_exited = TRUE]
                       [] ev.type = "Error" ->
                            [openwrk EXCEPT !.child_exited = TRUE,
                                            !.last_stderr = AppendOutput(@, ev.data)]
          /\ NoteMissed(p, "openwrk", ev)
    /\ UNCHANGED << proc, engine, openwork, owpenbot, lock, output_state, pc, loc,
                    ret, calls, chunks, wrote, env >>

\* format!("Owpenbot exited (code {code}).")
OwpenbotExitedText(code) == << "Owpenbot exited (code ", ToString(code), ")." >>

\* the task spawned by owpenbot_start
MuxOwpenbot(p) ==
    /\ proc[p].kind = "owpenbot"
    /\ Received(p)
    /\ LET ev == Head(rx[p])
       IN /\ rx' = [rx EXCEPT ![p] = Tail(@)]
          /\ owpenbot' =
                IF ~TryLock("owpenbot") THEN owpenbot
                ELSE CASE ev.type = "Stdout" ->
                            [owpenbot EXCEPT !.last_stdout = AppendOutput(@, ev.data)]
                       [] ev.type = "Stderr" ->
                            [owpenbot EXCEPT !.last_stderr = AppendOutput(@, ev.data)]
                       [] ev.type = "Terminated" ->
                            IF ev.data # NoCode
                            THEN [owpenbot EXCEPT !.child_exited = TRUE,
                                     !.last_stderr = truncate_output(OwpenbotExitedText(ev.data), OutputCap)]
                            ELSE [owpenbot EXCEPT !.child_exited = TRUE]
                       [] ev.type = "Error" ->
                            [owpenbot EXCEPT !.child_exited = TRUE,
                                             !.last_stderr = AppendOutput(@, ev.data)]
          /\ NoteMissed(p, "owpenbot", ev)
    /\ UNCHANGED << proc, engine, openwrk, openwork, lock, output_state, pc, loc,
                    ret, calls, chunks, wrote, env >>

\* the task of the gateway server's stream (Output Multiplexer contract)
MuxOpenwork(p) ==
    /\ proc[p].kind = "openwork"
    /\ Received(p)
    /\ LET ev == Head(rx[p])
       IN /\ rx' = [rx EXCEPT ![p] = Tail(@)]
          /\ openwork' =
                IF ~TryLock("openwork") THEN openwork
                ELSE CASE ev.type = "Stdout" ->
                            [openwork EXCEPT !.last_stdout = AppendOutput(@, ev.data)]
                       [] ev.type = "Stderr" ->
                            [openwork EXCEPT !.last_stderr = AppendOutput(@, ev.data)]
                       [] ev.type = "Terminated" -> [openwork EXCEPT !.child_exited = TRUE]
                       [] ev.type = "Error" ->
                            [openwork EXCEPT !.child_exited = TRUE,
                                             !.last_stderr = AppendOutput(@, ev.data)]
          /\ NoteMissed(p, "openwork", ev)
    /\ UNCHANGED << proc, engine, openwrk, owpenbot, lock, output_state, pc, loc,
                    ret, calls, chunks, wrote, env >>

(***************************************************************************)
(* Commands.  A command runs on a thread; pc[t] is the statement it is at. *)
(* A blocking Mutex::lock is a step that waits until the mutex is free.    *)
(***************************************************************************)
Call(t, cmd, runtime, first) ==
    /\ pc[t] = "idle"
    /\ cmd \in cfg.cmds[t]
    /\ calls < cfg.calls
    /\ calls' = calls + 1
    /\ IF cmd = "engine_start"
       THEN \E project_dir \in cfg.dirs :
               IF project_dir_required(project_dir)
               THEN /\ ret' = [ret EXCEPT ![t] =
                                  [Ret0 EXCEPT !.cmd = cmd, !.id = calls + 1, !.ok = FALSE,
                                               !.err = ProjectDirRequired,
                                               !.hist = Append(ret[t].hist,
                                                   [cmd |-> cmd, id |-> calls + 1,
                                                    ok |-> FALSE, runtime |-> runtime])]]
                    /\ UNCHANGED << pc, loc, fs >>
               ELSE /\ loc' = [loc EXCEPT ![t] =
                                  [Loc0 EXCEPT !.cmd = cmd, !.id = calls + 1,
                                      !.runtime = runtime,
                                      !.project_dir = Trim(project_dir),
                                      !.username = opencode_username(cfg.auth),
                                      !.password = opencode_password(cfg.auth, calls + 1)]]
                    /\ fs' = fs \cup ProjectFiles(Trim(project_dir))
                    /\ pc' = [pc EXCEPT ![t] = first]
                    /\ UNCHANGED ret
       ELSE /\ loc' = [loc EXCEPT ![t] =
                          [Loc0 EXCEPT !.cmd = cmd, !.id = calls + 1, !.runtime = runtime]]
            /\ pc' = [pc EXCEPT ![t] = first]
            /\ UNCHANGED << ret, fs >>
    /\ UNCHANGED << proc, rx, engine, openwrk, openwork, owpenbot, lock, output_state,
                    chunks, wrote, missed, exits, cfg, wait, doctor, poison, xdg,
                    trunc, workspaces >>

Return(t, r) ==
    /\ pc' = [pc EXCEPT ![t] = "idle"]
    /\ ret' = [ret EXCEPT ![t] = [r EXCEPT !.hist = Append(ret[t].hist,
                    [cmd |-> r.cmd, id |-> r.id, ok |-> r.ok, runtime |-> loc[t].runtime])]]
    /\ loc' = [loc EXCEPT ![t] = Loc0]

Goto(t, label) ==
    /\ pc' = [pc EXCEPT ![t] = label]
    /\ UNCHANGED ret

RetErr(t, text) ==
    [Ret0 EXCEPT !.cmd = loc[t].cmd, !.id = loc[t].id, !.ok = FALSE, !.err = text]

RetInfo(t, info) ==
    [cmd |-> loc[t].cmd, id |-> loc[t].id, ok |-> TRUE, err |-> <<>>,
     running |-> info.running, base_url |-> info.base_url, pid |-> info.pid,
     last_stdout |-> info.last_stdout, last_stderr |-> info.last_stderr, hist |-> <<>>]

SetOs(os) == proc' = os.proc /\ rx' = os.rx

\* .expect("engine mutex poisoned") and
\* .map_err(|_| "owpenbot mutex poisoned".to_string())?
PoisonText(k) == << k \o " mutex poisoned" >>

\* the command ends on the poisoned mutex of manager k: by the panic of
\* expect, or by the error of map_err
PoisonEnds(t, k) == Return(t, RetErr(t, PoisonText(k)))

\* engine_start, lines 239-240: lock the engine manager, stop the engine
EsLock(t) ==
    /\ pc[t] = "es_lock"
    /\ lock["engine"] = "free"
    /\ IF Poisoned("engine")
       THEN /\ PoisonEnds(t, "engine")
            /\ UNCHANGED << proc, rx, engine, lock >>
       ELSE /\ lock' = [lock EXCEPT !["engine"] = t]
            /\ SetOs(Engine_stop_os(engine, Os))
            /\ engine' = Engine_stop_credentials(Engine_stop_locked(engine))
            /\ Goto(t, "es_openwrk")
            /\ UNCHANGED loc
    /\ UNCHANGED << openwrk, openwork, owpenbot, output_state, calls, chunks,
                    wrote, missed, env >>

NotFoundText == << "OpenCode CLI not found." >>

\* engine_start, lines 241-268: stop the daemon if its mutex can be locked, set
\* the runtime, resolve the engine executable; daemon mode releases the engine
\* lock
EsOpenwrk(t, found) ==
    /\ pc[t] = "es_openwrk"
    /\ lock["openwrk"] = "free"
    /\ IF Poisoned("openwrk")
       THEN UNCHANGED << proc, rx, openwrk >>
       ELSE /\ SetOs(Openwrk_stop_os(openwrk, Os))
            /\ openwrk' = Openwrk_stop_locked(openwrk)
    /\ engine' = [engine EXCEPT !.runtime = loc[t].runtime]
    /\ IF ~found
       THEN /\ Return(t, RetErr(t, NotFoundText))
            /\ lock' = [lock EXCEPT !["engine"] = "free"]
       ELSE IF loc[t].runtime = "openwrk"
       THEN /\ Goto(t, "es_d_spawn")
            /\ lock' = [lock EXCEPT !["engine"] = "free"]
            /\ UNCHANGED loc
       ELSE /\ Goto(t, "es_spawn")
            /\ UNCHANGED << lock, loc >>
    /\ UNCHANGED << openwork, owpenbot, output_state, calls, chunks, wrote, missed, env >>

SpawnEngineErr == << "Failed to start opencode: ", "error" >>

\* engine_start, lines 427-501: spawn the engine and its multiplexer task
EsSpawn(t, ok) ==
    /\ pc[t] = "es_spawn"
    /\ ok => CanSpawn
    /\ IF ok
       THEN /\ SetOs(SpawnOs(Os, FreePid, "engine", t, TRUE))
            /\ engine' = [engine EXCEPT !.last_stdout = <<>>, !.last_stderr = <<>>,
                                        !.child_exited = FALSE]
            /\ output_state' = [output_state EXCEPT ![FreePid] = OutputState0]
            /\ loc' = [loc EXCEPT ![t].child = FreePid]
            /\ Goto(t, "es_warmup")
            /\ UNCHANGED lock
       ELSE /\ Return(t, RetErr(t, SpawnEngineErr))
            /\ lock' = [lock EXCEPT !["engine"] = "free"]
            /\ UNCHANGED << proc, rx, engine, output_state >>
    /\ UNCHANGED << openwrk, openwork, owpenbot, calls, chunks, wrote, missed, env >>

\* engine_start, lines 507-539: the error text of an exit in the warm-up window
ExitedImmediatelyText(output) ==
    LET stdout == Trim(output.stdout)
        stderr == Trim(output.stderr)
        p1 == IF stdout = <<>> THEN <<>>
              ELSE << "\n\n", "stdout:\n" >> \o truncate_output(stdout, OutputCap)
        p2 == IF stderr = <<>> THEN <<>>
              ELSE << "\n\n", "stderr:\n" >> \o truncate_output(stderr, OutputCap)
    IN << "OpenCode exited immediately with status ", ToString(output.exit_code), "." >>
           \o p1 \o p2

\* engine_start, lines 504-540: the warm-up loop sees output.exited
\* a warm-up that goes on to the secondaries after the engine was seen exited
\* (C15 tells them apart)
EsWarmupExited_goes_on(t) ==
    /\ pc[t] = "es_warmup"
    /\ output_state[loc[t].child].exited
    /\ Goto(t, "es_openwork")
    /\ UNCHANGED << proc, rx, engine, openwrk, openwork, owpenbot, output_state,
                    lock, loc, calls, chunks, wrote, missed, env >>

EsWarmupExited(t) ==
    /\ pc[t] = "es_warmup"
    /\ output_state[loc[t].child].exited
    /\ Return(t, RetErr(t, ExitedImmediatelyText(output_state[loc[t].child])))
    /\ lock' = [lock EXCEPT !["engine"] = "free"]
    /\ UNCHANGED << proc, rx, engine, openwrk, openwork, owpenbot, output_state,
                    calls, chunks, wrote, missed, env >>

HealthPortErr == << "Owpenbot health port: ", "error" >>

\* engine_start, lines 543-565: the deadline passes with the process not seen
\* exited; register the child and the connection info, resolve the bot's
\* health port
EsWarmupDeadline(t, hp_ok) ==
    /\ pc[t] = "es_warmup"
    /\ ~output_state[loc[t].child].exited
    /\ engine' = [engine EXCEPT !.child = loc[t].child,
                                !.base_url = loc[t].id,
                                !.opencode_username = loc[t].username,
                                !.opencode_password = loc[t].password,
                                !.last_stderr = IF hp_ok THEN @
                                                ELSE truncate_output(HealthPortErr, OutputCap)]
    /\ loc' = [loc EXCEPT ![t].health_port = hp_ok]
    /\ Goto(t, "es_openwork")
    /\ UNCHANGED << proc, rx, openwrk, openwork, owpenbot, lock, output_state,
                    calls, chunks, wrote, missed, env >>

OpenworkErr == << "OpenWork server: ", "error" >>

\* start_openwork_server as engine_start calls it (lines 384-396, 567-577):
\* stop the previous gateway server, spawn a new one; a failure is stored in
\* the engine state, for which daemon mode must lock the engine manager again
EsOpenwork(t, ok) ==
    /\ pc[t] = "es_openwork"
    /\ lock["openwork"] = "free"
    /\ ok => CanSpawn
    /\ LET stopped == Openwork_stop_os(openwork, Os) IN
       IF ok
       THEN /\ SetOs(SpawnOs(stopped, FreePid, "openwork", t, TRUE))
            /\ openwork' = [OpenworkState0 EXCEPT !.child = FreePid, !.base_url = loc[t].id]
            /\ Goto(t, "es_bot_lock")
            /\ UNCHANGED << engine, loc >>
       ELSE /\ SetOs(stopped)
            /\ openwork' = Openwork_stop_locked(openwork)
            /\ IF lock["engine"] = t
               THEN /\ engine' = [engine EXCEPT !.last_stderr =
                                     truncate_output(OpenworkErr, OutputCap)]
                    /\ Goto(t, "es_bot_lock")
                    /\ UNCHANGED loc
               ELSE /\ loc' = [loc EXCEPT ![t].pend = OpenworkErr]
                    /\ Goto(t, "es_rec_openwork")
                    /\ UNCHANGED engine
    /\ UNCHANGED << openwrk, owpenbot, lock, output_state, calls, chunks, wrote, missed, env >>

\* engine_start, lines 393-395: daemon mode stores the gateway's error
EsRecOpenwork(t) ==
    /\ pc[t] = "es_rec_openwork"
    /\ lock["engine"] = "free"
    /\ engine' = IF Poisoned("engine") THEN engine
                 ELSE [engine EXCEPT !.last_stderr =
                          truncate_output(loc[t].pend, OutputCap)]
    /\ loc' = [loc EXCEPT ![t].pend = <<>>]
    /\ Goto(t, "es_bot_lock")
    /\ UNCHANGED << proc, rx, openwrk, openwork, owpenbot, lock, output_state,
                    calls, chunks, wrote, missed, env >>

\* owpenbot_start, lines 119-123: lock the bot manager, stop the bot
\* on a poisoned mutex owpenbot_start returns the error at once: to the
\* caller of the command, or to engine_start, which records it (lines 406-410,
\* 587-589)
BotLock(t, at, next) ==
    /\ pc[t] = at
    /\ lock["owpenbot"] = "free"
    /\ IF Poisoned("owpenbot")
       THEN /\ IF at = "es_bot_lock"
               THEN /\ loc' = [loc EXCEPT ![t].pend =
                                  << "Owpenbot: " >> \o PoisonText("owpenbot")]
                    /\ Goto(t, "es_bot_return")
               ELSE PoisonEnds(t, "owpenbot")
            /\ UNCHANGED << proc, rx, owpenbot, lock >>
       ELSE /\ lock' = [lock EXCEPT !["owpenbot"] = t]
            /\ SetOs(Owpenbot_stop_os(owpenbot, Os))
            /\ owpenbot' = Owpenbot_stop_locked(owpenbot)
            /\ Goto(t, next)
            /\ UNCHANGED loc
    /\ UNCHANGED << engine, openwrk, openwork, output_state, calls, chunks,
                    wrote, missed, env >>

EsBotLock(t) == BotLock(t, "es_bot_lock", "es_bot_spawn")

SpawnBotErr == << "Failed to start owpenbot: ", "error" >>

BotResults == {"ok", "port_err", "spawn_err"}

\* owpenbot_start, lines 125-136: both ways it can fail
BotResultPossible(t, res) ==
    /\ res = "ok" => CanSpawn
    /\ res = "port_err" => ~loc[t].health_port

BotErr(res) == IF res = "port_err" THEN << "error" >> ELSE SpawnBotErr

\* a registration that stores the connection info without the child handle
\* (C11 tells them apart)
BotRegistered_no_child(t) ==
    [owpenbot EXCEPT !.child = None, !.child_exited = FALSE,
                     !.workspace_path = loc[t].id, !.opencode_url = loc[t].id,
                     !.last_stdout = <<>>, !.last_stderr = <<>>]

\* owpenbot_start, lines 138-144: the state after a successful spawn
BotRegistered(t) ==
    [owpenbot EXCEPT !.child = FreePid, !.child_exited = FALSE,
                     !.workspace_path = loc[t].id, !.opencode_url = loc[t].id,
                     !.last_stdout = <<>>, !.last_stderr = <<>>]

\* format!("Owpenbot: {error}")
OwpenbotErr(res) == << "Owpenbot: " >> \o BotErr(res)

\* engine_start, lines 412-424: the status daemon mode returns
DaemonInfo(t) ==
    [running |-> TRUE, base_url |-> loc[t].id, pid |-> loc[t].child,
     last_stdout |-> <<>>, last_stderr |-> <<>>]

\* owpenbot_start inside engine_start, lines 125-204
EsBotSpawn(t, res) ==
    /\ pc[t] = "es_bot_spawn"
    /\ BotResultPossible(t, res)
    /\ IF res = "ok"
       THEN /\ SetOs(SpawnOs(Os, FreePid, "owpenbot", t, TRUE))
            /\ owpenbot' = BotRegistered(t)
            /\ UNCHANGED loc
       ELSE /\ loc' = [loc EXCEPT ![t].pend = OwpenbotErr(res)]
            /\ UNCHANGED << proc, rx, owpenbot >>
    /\ Goto(t, "es_bot_return")
    /\ UNCHANGED << engine, openwrk, openwork, lock, output_state, calls, chunks,
                    wrote, missed, env >>

\* owpenbot_start returns (lines 206-207); engine_start stores its error and
\* returns: lines 587-591 in direct mode, lines 406-424 in daemon mode, where
\* storing the error needs the engine lock again
EsBotReturn(t) ==
    /\ pc[t] = "es_bot_return"
    /\ owpenbot' = IF loc[t].pend = <<>> THEN Owpenbot_snapshot_locked(owpenbot)
                   ELSE owpenbot
    /\ lock' = [k \in Kinds |-> IF lock[k] = t THEN "free" ELSE lock[k]]
    /\ IF lock["engine"] = t
       THEN LET recorded == IF loc[t].pend = <<>> THEN engine
                            ELSE [engine EXCEPT !.last_stderr =
                                     truncate_output(loc[t].pend, OutputCap)]
            IN /\ engine' = Engine_snapshot_locked(recorded, proc)
               /\ Return(t, RetInfo(t, Engine_snapshot_info(recorded, proc)))
       ELSE /\ UNCHANGED engine
            /\ IF loc[t].pend = <<>>
               THEN Return(t, RetInfo(t, DaemonInfo(t)))
               ELSE Goto(t, "es_rec_owpenbot") /\ UNCHANGED loc
    /\ UNCHANGED << proc, rx, openwrk, openwork, output_state, calls, chunks, wrote,
                    missed, env >>

\* engine_start, lines 407-424: daemon mode stores the bot's error and returns
EsRecOwpenbot(t) ==
    /\ pc[t] = "es_rec_owpenbot"
    /\ lock["engine"] = "free"
    /\ engine' = IF Poisoned("engine") THEN engine
                 ELSE [engine EXCEPT !.last_stderr =
                          truncate_output(loc[t].pend, OutputCap)]
    /\ Return(t, RetInfo(t, DaemonInfo(t)))
    /\ UNCHANGED << proc, rx, openwrk, openwork, owpenbot, lock, output_state,
                    calls, chunks, wrote, missed, env >>

SpawnDaemonErr == << "Failed to start openwrk: ", "error" >>

\* engine_start, lines 269-286: spawn the daemon; no lock is held
EsDSpawn(t, ok) ==
    /\ pc[t] = "es_d_spawn"
    /\ ok => CanSpawn
    /\ IF ok
       THEN /\ SetOs(SpawnOs(Os, FreePid, "openwrk", t, FALSE))
            /\ loc' = [loc EXCEPT ![t].child = FreePid]
            /\ Goto(t, "es_d_register")
       ELSE /\ Return(t, RetErr(t, SpawnDaemonErr))
            /\ UNCHANGED << proc, rx >>
    /\ UNCHANGED << engine, openwrk, openwork, owpenbot, lock, output_state, calls,
                    chunks, wrote, missed, env >>

\* engine_start, lines 287-347: register the daemon, start its multiplexer task
EsDRegister(t) ==
    /\ pc[t] = "es_d_register"
    /\ lock["openwrk"] = "free"
    /\ IF Poisoned("openwrk")
       THEN /\ PoisonEnds(t, "openwrk")
            /\ UNCHANGED << proc, openwrk >>
       ELSE /\ openwrk' = [openwrk EXCEPT !.child = loc[t].child,
                                          !.child_exited = FALSE,
                                          !.data_dir = 1,
                                          !.last_stdout = <<>>,
                                          !.last_stderr = <<>>]
            /\ proc' = [proc EXCEPT ![loc[t].child].mux = TRUE]
            /\ Goto(t, "es_d_health")
            /\ UNCHANGED loc
    /\ UNCHANGED << rx, engine, openwork, owpenbot, lock, output_state, calls,
                    chunks, wrote, missed, env >>

HealthResults == {"healthy", "no_opencode", "error"}

NoOpencodeText == << "Openwrk did not report OpenCode status" >>

\* engine_start, lines 349-354: wait_for_openwrk and the engine entry of its
\* payload; only a live daemon answers the health request
EsDHealth(t, res) ==
    /\ pc[t] = "es_d_health"
    /\ res # "error" => Alive(loc[t].child)
    /\ CASE res = "healthy" -> Goto(t, "es_d_engine") /\ UNCHANGED loc
         [] res = "no_opencode" -> Return(t, RetErr(t, NoOpencodeText))
         [] res = "error" -> Return(t, RetErr(t, SpawnDaemonErr))
    /\ UNCHANGED << proc, rx, engine, openwrk, openwork, owpenbot, lock, output_state,
                    calls, chunks, wrote, missed, env >>

\* engine_start, lines 360-382: daemon mode fills the engine state, then
\* resolves the bot's health port
EsDEngine(t, hp_ok) ==
    /\ pc[t] = "es_d_engine"
    /\ lock["engine"] = "free"
    /\ engine' = IF Poisoned("engine") THEN engine
                 ELSE [runtime |-> "openwrk", child |-> None,
                       child_exited |-> FALSE,
                       base_url |-> loc[t].id, opencode_username |-> loc[t].username,
                       opencode_password |-> loc[t].password,
                       last_stdout |-> <<>>,
                       last_stderr |-> IF hp_ok THEN <<>>
                                       ELSE truncate_output(HealthPortErr, OutputCap)]
    /\ loc' = [loc EXCEPT ![t].health_port = hp_ok]
    /\ Goto(t, "es_openwork")
    /\ UNCHANGED << proc, rx, openwrk, openwork, owpenbot, lock, output_state,
                    calls, chunks, wrote, missed, env >>

(***************************************************************************)
(* engine_stop (lines 77-96).                                              *)
(***************************************************************************)
StLock(t) ==
    /\ pc[t] = "st_lock"
    /\ lock["engine"] = "free"
    /\ IF Poisoned("engine")
       THEN PoisonEnds(t, "engine") /\ UNCHANGED lock
       ELSE /\ lock' = [lock EXCEPT !["engine"] = t]
            /\ Goto(t, "st_openwrk")
            /\ UNCHANGED loc
    /\ UNCHANGED << proc, rx, engine, openwrk, openwork, owpenbot, output_state,
                    calls, chunks, wrote, missed, env >>

\* lines 85-88: stop the daemon if its mutex can be locked, then the engine
StOpenwrk(t) ==
    /\ pc[t] = "st_openwrk"
    /\ lock["openwrk"] = "free"
    /\ IF Poisoned("openwrk")
       THEN /\ SetOs(Engine_stop_os(engine, Os))
            /\ UNCHANGED openwrk
       ELSE /\ SetOs(Engine_stop_os(engine, Openwrk_stop_os(openwrk, Os)))
            /\ openwrk' = Openwrk_stop_locked(openwrk)
    /\ engine' = Engine_stop_credentials(Engine_stop_locked(engine))
    /\ Goto(t, "st_openwork")
    /\ UNCHANGED << openwork, owpenbot, lock, output_state, loc, calls, chunks,
                    wrote, missed, env >>

\* lines 89-91: stop the gateway server
StOpenwork(t) ==
    /\ pc[t] = "st_openwork"
    /\ lock["openwork"] = "free"
    /\ IF Poisoned("openwork")
       THEN UNCHANGED << proc, rx, openwork >>
       ELSE /\ SetOs(Openwork_stop_os(openwork, Os))
            /\ openwork' = Openwork_stop_locked(openwork)
    /\ Goto(t, "st_owpenbot")
    /\ UNCHANGED << engine, openwrk, owpenbot, lock, output_state, loc, calls,
                    chunks, wrote, missed, env >>

\* lines 92-95: stop the bot, return the engine's snapshot
StOwpenbot(t) ==
    /\ pc[t] = "st_owpenbot"
    /\ lock["owpenbot"] = "free"
    /\ IF Poisoned("owpenbot")
       THEN UNCHANGED << proc, rx, owpenbot >>
       ELSE /\ SetOs(Owpenbot_stop_os(owpenbot, Os))
            /\ owpenbot' = Owpenbot_stop_locked(owpenbot)
    /\ engine' = Engine_snapshot_locked(engine, proc)
    /\ Return(t, RetInfo(t, Engine_snapshot_info(engine, proc)))
    /\ lock' = [lock EXCEPT !["engine"] = "free"]
    /\ UNCHANGED << openwrk, openwork, output_state, calls, chunks, wrote, missed, env >>

(***************************************************************************)
(* engine_info (lines 29-75).                                              *)
(***************************************************************************)
Daemons == {p \in Pids : proc[p].kind = "openwrk"}

LastOf(S) == CHOOSE p \in S : \A q \in S : q <= p

\* resolve_openwrk_status: the health endpoint of a live daemon, else the
\* state file the last daemon left behind
DaemonStatus ==
    LET live == {p \in Daemons : Alive(p)} IN
    IF live # {}
    THEN [running |-> TRUE, opencode |-> proc[LastOf(live)].call, pid |-> LastOf(live)]
    ELSE IF Daemons # {}
    THEN [running |-> FALSE, opencode |-> proc[LastOf(Daemons)].call, pid |-> LastOf(Daemons)]
    ELSE [running |-> FALSE, opencode |-> None, pid |-> None]

\* lines 31-32, 74: lock the engine manager; direct mode returns its snapshot
EiLock(t) ==
    /\ pc[t] = "ei_lock"
    /\ lock["engine"] = "free"
    /\ IF Poisoned("engine")
       THEN PoisonEnds(t, "engine") /\ UNCHANGED << engine, lock >>
       ELSE IF engine.runtime = "openwrk"
       THEN /\ lock' = [lock EXCEPT !["engine"] = t]
            /\ Goto(t, "ei_openwrk")
            /\ UNCHANGED << engine, loc >>
       ELSE /\ engine' = Engine_snapshot_locked(engine, proc)
            /\ Return(t, RetInfo(t, Engine_snapshot_info(engine, proc)))
            /\ UNCHANGED lock
    /\ UNCHANGED << proc, rx, openwrk, openwork, owpenbot, output_state, calls,
                    chunks, wrote, missed, env >>

\* lines 33-73: daemon mode reads the daemon manager and the daemon's status
EiOpenwrk(t) ==
    /\ pc[t] = "ei_openwrk"
    /\ lock["openwrk"] = "free"
    /\ Return(t, RetInfo(t, [running |-> DaemonStatus.running,
                             base_url |-> DaemonStatus.opencode,
                             pid |-> DaemonStatus.pid,
                             last_stdout |-> IF Poisoned("openwrk") THEN <<>>
                                             ELSE openwrk.last_stdout,
                             last_stderr |-> IF Poisoned("openwrk") THEN <<>>
                                             ELSE openwrk.last_stderr]))
    /\ lock' = [lock EXCEPT !["engine"] = "free"]
    /\ UNCHANGED << proc, rx, engine, openwrk, openwork, owpenbot, output_state,
                    calls, chunks, wrote, missed, env >>

(***************************************************************************)
(* owpenbot_start, owpenbot_stop, owpenbot_info (commands/owpenbot.rs).    *)
(***************************************************************************)
ObLock(t) == BotLock(t, "ob_lock", "ob_spawn")

\* owpenbot_start, lines 125-204: spawn, register, start the multiplexer task
ObSpawn(t, res) ==
    /\ pc[t] = "ob_spawn"
    /\ BotResultPossible(t, res)
    /\ IF res = "ok"
       THEN /\ SetOs(SpawnOs(Os, FreePid, "owpenbot", t, TRUE))
            /\ owpenbot' = BotRegistered(t)
            /\ Goto(t, "ob_return")
            /\ UNCHANGED << lock, loc >>
       ELSE /\ Return(t, RetErr(t, BotErr(res)))
            /\ lock' = [lock EXCEPT !["owpenbot"] = "free"]
            /\ UNCHANGED << proc, rx, owpenbot >>
    /\ UNCHANGED << engine, openwrk, openwork, output_state, calls, chunks, wrote,
                    missed, env >>

\* an owpenbot_start that locks the engine manager while it holds the lock
\* of the bot manager: the order of engine_start reversed
ObReturn_locks_engine(t) ==
    /\ pc[t] = "ob_return"
    /\ lock["engine"] = "free"
    /\ owpenbot' = Owpenbot_snapshot_locked(owpenbot)
    /\ Return(t, RetInfo(t, Owpenbot_snapshot_info(owpenbot)))
    /\ lock' = [lock EXCEPT !["owpenbot"] = "free"]
    /\ UNCHANGED << proc, rx, engine, openwrk, openwork, output_state, calls, chunks,
                    wrote, missed, env >>

\* owpenbot_start, lines 206-207: return the snapshot, release the lock
ObReturn(t) ==
    /\ pc[t] = "ob_return"
    /\ owpenbot' = Owpenbot_snapshot_locked(owpenbot)
    /\ Return(t, RetInfo(t, Owpenbot_snapshot_info(owpenbot)))
    /\ lock' = [lock EXCEPT !["owpenbot"] = "free"]
    /\ UNCHANGED << proc, rx, engine, openwrk, openwork, output_state, calls, chunks,
                    wrote, missed, env >>

\* an owpenbot_stop that resets the engine manager as well (C28 tells them
\* apart)
ObStop_resets_engine(t) ==
    /\ pc[t] = "ob_stop"
    /\ lock["owpenbot"] = "free"
    /\ SetOs(Owpenbot_stop_os(owpenbot, Os))
    /\ owpenbot' = Owpenbot_snapshot_locked(Owpenbot_stop_locked(owpenbot))
    /\ engine' = Engine_stop_locked(engine)
    /\ Return(t, RetInfo(t, Owpenbot_snapshot_info(Owpenbot_stop_locked(owpenbot))))
    /\ UNCHANGED << openwrk, openwork, lock, output_state, calls, chunks,
                    wrote, missed, env >>

\* owpenbot_stop, lines 210-217
ObStop(t) ==
    /\ pc[t] = "ob_stop"
    /\ lock["owpenbot"] = "free"
    /\ IF Poisoned("owpenbot")
       THEN /\ PoisonEnds(t, "owpenbot")
            /\ UNCHANGED << proc, rx, owpenbot >>
       ELSE /\ SetOs(Owpenbot_stop_os(owpenbot, Os))
            /\ owpenbot' = Owpenbot_snapshot_locked(Owpenbot_stop_locked(owpenbot))
            /\ Return(t, RetInfo(t, Owpenbot_snapshot_info(
                                        Owpenbot_stop_locked(owpenbot))))
    /\ UNCHANGED << engine, openwrk, openwork, lock, output_state, calls, chunks,
                    wrote, missed, env >>

\* check_health_endpoint: a live bot answers on its health port
BotHealthy == \E p \in Pids : proc[p].kind = "owpenbot" /\ Alive(p)

\* owpenbot_info, lines 28-59: the snapshot, with the health endpoint as fallback
ObInfo(t) ==
    /\ pc[t] = "ob_info"
    /\ lock["owpenbot"] = "free"
    /\ IF Poisoned("owpenbot")
       THEN PoisonEnds(t, "owpenbot") /\ UNCHANGED owpenbot
       ELSE /\ owpenbot' = Owpenbot_snapshot_locked(owpenbot)
            /\ LET info == Owpenbot_snapshot_info(owpenbot) IN
               Return(t, RetInfo(t, [info EXCEPT
                                       !.running = info.running \/ BotHealthy]))
    /\ UNCHANGED << proc, rx, engine, openwrk, openwork, lock, output_state, calls,
                    chunks, wrote, missed, env >>

ExitEvents == { Terminated(1), [type |-> "Error", data |-> <<"wait failed">>] }

Runtimes == {"direct", "openwrk"}

Next == \/ \E p \in Pids, s \in {"Stdout", "Stderr"} : ProcOutput(p, s)
        \/ \E p \in Pids, ev \in ExitEvents : ProcExit(p, ev)
        \/ \E p \in Pids : ProcDie(p)
        \/ \E p \in Pids : MuxEngine(p)
        \/ \E p \in Pids : MuxOpenwrk(p)
        \/ \E p \in Pids : MuxOwpenbot(p)
        \/ \E p \in Pids : MuxOpenwork(p)
        \/ \E t \in Threads, r \in Runtimes : Call(t, "engine_start", r, "es_lock")
        \/ \E t \in Threads : Call(t, "engine_stop", "direct", "st_lock")
        \/ \E t \in Threads : Call(t, "engine_info", "direct", "ei_lock")
        \/ \E t \in Threads : Call(t, "owpenbot_start", "direct", "ob_lock")
        \/ \E t \in Threads : Call(t, "owpenbot_stop", "direct", "ob_stop")
        \/ \E t \in Threads : Call(t, "owpenbot_info", "direct", "ob_info")
        \/ \E t \in Threads : EsLock(t)
        \/ \E t \in Threads, found \in BOOLEAN : EsOpenwrk(t, found)
        \/ \E t \in Threads, ok \in BOOLEAN : EsSpawn(t, ok)
        \/ \E t \in Threads : EsWarmupExited(t)
        \/ \E t \in Threads, hp_ok \in BOOLEAN : EsWarmupDeadline(t, hp_ok)
        \/ \E t \in Threads, ok \in BOOLEAN : EsOpenwork(t, ok)
        \/ \E t \in Threads : EsRecOpenwork(t)
        \/ \E t \in Threads : EsBotLock(t)
        \/ \E t \in Threads, res \in BotResults : EsBotSpawn(t, res)
        \/ \E t \in Threads : EsBotReturn(t)
        \/ \E t \in Threads : EsRecOwpenbot(t)
        \/ \E t \in Threads, ok \in BOOLEAN : EsDSpawn(t, ok)
        \/ \E t \in Threads : EsDRegister(t)
        \/ \E t \in Threads, res \in HealthResults : EsDHealth(t, res)
        \/ \E t \in Threads, hp_ok \in BOOLEAN : EsDEngine(t, hp_ok)
        \/ \E t \in Threads : StLock(t)
        \/ \E t \in Threads : StOpenwrk(t)
        \/ \E t \in Threads : StOpenwork(t)
        \/ \E t \in Threads : StOwpenbot(t)
        \/ \E t \in Threads : EiLock(t)
        \/ \E t \in Threads : EiOpenwrk(t)
        \/ \E t \in Threads : ObLock(t)
        \/ \E t \in Threads, res \in BotResults : ObSpawn(t, res)
        \/ \E t \in Threads : ObReturn(t)
        \/ \E t \in Threads : ObStop(t)
        \/ \E t \in Threads : ObInfo(t)

Spec == Init /\ [][Next]_vars

\* the steps of engine_start after its call
StartStep(t) ==
    \/ EsLock(t)
    \/ \E found \in BOOLEAN : EsOpenwrk(t, found)
    \/ \E ok \in BOOLEAN : EsSpawn(t, ok)
    \/ EsWarmupExited(t)
    \/ \E hp_ok \in BOOLEAN : EsWarmupDeadline(t, hp_ok)
    \/ \E ok \in BOOLEAN : EsOpenwork(t, ok)
    \/ EsRecOpenwork(t)
    \/ EsBotLock(t)
    \/ \E res \in BotResults : EsBotSpawn(t, res)
    \/ EsBotReturn(t)
    \/ EsRecOwpenbot(t)
    \/ \E ok \in BOOLEAN : EsDSpawn(t, ok)
    \/ EsDRegister(t)
    \/ \E res \in HealthResults : EsDHealth(t, res)
    \/ \E hp_ok \in BOOLEAN : EsDEngine(t, hp_ok)

\* the steps of engine_stop after its call
StopStep(t) == StLock(t) \/ StOpenwrk(t) \/ StOpenwork(t) \/ StOwpenbot(t)

\* every step of a multiplexer task
MuxStep(p) == MuxEngine(p) \/ MuxOpenwrk(p) \/ MuxOwpenbot(p) \/ MuxOpenwork(p)

\* an engine_start on one thread, an engine_stop on the other one
NextConc ==
    \/ \E p \in Pids, s \in {"Stdout", "Stderr"} : ProcOutput(p, s)
    \/ \E p \in Pids, ev \in ExitEvents : ProcExit(p, ev)
    \/ \E p \in Pids : ProcDie(p)
    \/ \E p \in Pids : MuxStep(p)
    \/ \E t \in Threads, r \in Runtimes : Call(t, "engine_start", r, "es_lock")
    \/ \E t \in Threads : Call(t, "engine_stop", "direct", "st_lock")
    \/ \E t \in Threads : StartStep(t)
    \/ \E t \in Threads : StopStep(t)

\* The scheduler runs every thread and every task that can take a step, and a
\* process that was sent the kill signal dies; nothing forces a command to be
\* called or a child to write or to exit.
Fairness ==
    /\ \A t \in Threads : WF_vars(StartStep(t) \/ StopStep(t))
    /\ \A p \in Pids : WF_vars(MuxStep(p))
    /\ \A p \in Pids : WF_vars(ProcDie(p))

SpecConc == InitConc /\ [][NextConc]_vars /\ Fairness

(***************************************************************************)
(* wait_for_openwrk (openwrk/mod.rs 114-126) on its own: a call with a      *)
(* timeout, the health probes it makes and what each of them answers.       *)
(***************************************************************************)
\* what fetch_openwrk_health can answer: Ok with ok = true, Ok with ok = false,
\* a transport error, a response that does not parse
ProbeOutcomes == {"healthy", "unhealthy", "transport", "parse"}

UnhealthyText == << "Openwrk reported unhealthy" >>

TimedOutText == << "Timed out waiting for openwrk" >>

\* the error wait_for_openwrk remembers for a probe that was not healthy
ProbeError(outcome) ==
    CASE outcome = "unhealthy" -> UnhealthyText
      [] outcome = "transport" -> << "transport error" >>
      [] outcome = "parse" -> << "Failed to parse response: ", "error" >>

InitWait ==
    /\ Start
    /\ cfg = [cmds |-> [t \in Threads |-> {}], calls |-> 0, chunks |-> 0,
              exits |-> 0, procs |-> 0, auth |-> Unset,
              dirs |-> {WorkDir}]
    /\ doctor = Doctor0
    /\ Standalone0
    /\ \E timeout_ms \in 0..MaxTimeout :
          wait = [Wait0 EXCEPT !.pc = "loop", !.timeout = timeout_ms]

\* line 117 and line 125: the loop condition; past the timeout the call
\* returns the last error, or the timeout text when there is none
WaitLoop ==
    /\ wait.pc = "loop"
    /\ IF wait.elapsed < wait.timeout
       THEN wait' = [wait EXCEPT !.pc = "probe"]
       ELSE wait' = [wait EXCEPT !.pc = "done", !.ok = FALSE,
                        !.err = IF wait.last_error = <<>> THEN TimedOutText
                                ELSE wait.last_error]
    /\ UNCHANGED << system, doctor, standalone >>

\* a probe that keeps the first error it saw (C16 tells them apart)
WaitProbe_keeps_first_error(outcome, took) ==
    /\ wait.pc = "probe"
    /\ IF outcome = "healthy"
       THEN wait' = [wait EXCEPT !.pc = "done", !.ok = TRUE,
                                 !.probes = Append(@, outcome),
                                 !.elapsed = @ + took]
       ELSE wait' = [wait EXCEPT !.pc = "sleep",
                                 !.last_error = IF @ = <<>> THEN ProbeError(outcome) ELSE @,
                                 !.probes = Append(@, outcome),
                                 !.elapsed = @ + took]
    /\ UNCHANGED << system, doctor, standalone >>

\* lines 118-122: one probe of the health endpoint, which takes some time
WaitProbe(outcome, took) ==
    /\ wait.pc = "probe"
    /\ IF outcome = "healthy"
       THEN wait' = [wait EXCEPT !.pc = "done", !.ok = TRUE,
                                 !.probes = Append(@, outcome),
                                 !.elapsed = @ + took]
       ELSE wait' = [wait EXCEPT !.pc = "sleep",
                                 !.last_error = ProbeError(outcome),
                                 !.probes = Append(@, outcome),
                                 !.elapsed = @ + took]
    /\ UNCHANGED << system, doctor, standalone >>

\* line 123: sleep 200 ms
WaitSleep ==
    /\ wait.pc = "sleep"
    /\ wait' = [wait EXCEPT !.pc = "loop", !.elapsed = @ + 1]
    /\ UNCHANGED << system, doctor, standalone >>

NextWait ==
    \/ WaitLoop
    \/ \E outcome \in ProbeOutcomes, took \in 0..MaxProbeTicks : WaitProbe(outcome, took)
    \/ WaitSleep

SpecWait == InitWait /\ [][NextWait]_vars /\ WF_vars(NextWait)

(***************************************************************************)
(* engine_start with its two waiting loops spelled out: the warm-up loop   *)
(* of direct mode (lines 503-548) and wait_for_openwrk in daemon mode      *)
(* (line 350).  One thread calls engine_start; time passes in the sleeps.  *)
(***************************************************************************)
InitTimed ==
    /\ Start
    /\ cfg = [cmds |-> [t \in Threads |-> IF t = "t1" THEN {"engine_start"} ELSE {}],
              calls |-> TimedCalls, chunks |-> TimedChunks,
              exits |-> TimedExits, procs |-> TimedProcs, auth |-> Unset,
              dirs |-> {WorkDir}]
    /\ wait = Wait0
    /\ doctor = Doctor0
    /\ Standalone0

\* a warm-up loop that sets its deadline anew in the iteration before the
\* deadline (C17 tells them apart)
EsWarmupSleep_new_deadline(t) ==
    /\ pc[t] = "es_warmup"
    /\ ~output_state[loc[t].child].exited
    /\ loc[t].warm < WarmupTicks
    /\ loc' = [loc EXCEPT ![t].warm = IF @ + 1 >= WarmupTicks THEN 0 ELSE @ + 1]
    /\ UNCHANGED << proc, rx, engine, openwrk, openwork, owpenbot, lock, output_state,
                    pc, ret, calls, chunks, wrote, missed, env >>

\* lines 504-547: an iteration that finds the process not exited and the
\* deadline not reached, and sleeps
EsWarmupSleep(t) ==
    /\ pc[t] = "es_warmup"
    /\ ~output_state[loc[t].child].exited
    /\ loc[t].warm < WarmupTicks
    /\ loc' = [loc EXCEPT ![t].warm = @ + 1]
    /\ UNCHANGED << proc, rx, engine, openwrk, openwork, owpenbot, lock, output_state,
                    pc, ret, calls, chunks, wrote, missed, env >>

\* lines 543-545: the iteration that finds the deadline reached
EsWarmupBreak(t, hp_ok) ==
    /\ loc[t].warm >= WarmupTicks
    /\ EsWarmupDeadline(t, hp_ok)

\* line 350: engine_start calls wait_for_openwrk with its fixed timeout
EsDWaitCall(t) ==
    /\ pc[t] = "es_d_health"
    /\ wait.call # loc[t].id
    /\ wait' = [Wait0 EXCEPT !.pc = "loop", !.call = loc[t].id, !.timeout = MaxTimeout]
    /\ UNCHANGED << system, doctor, standalone >>

\* the loop condition and the sleep of the wait of thread t
EsDWaitLoop(t) ==
    /\ pc[t] = "es_d_health"
    /\ wait.call = loc[t].id
    /\ WaitLoop

EsDWaitSleep(t) ==
    /\ pc[t] = "es_d_health"
    /\ wait.call = loc[t].id
    /\ WaitSleep

\* a probe made by the wait of thread t: only a live daemon answers healthy
EsDWaitProbe(t, outcome, took) ==
    /\ pc[t] = "es_d_health"
    /\ wait.call = loc[t].id
    /\ outcome = "healthy" => Alive(loc[t].child)
    /\ WaitProbe(outcome, took)

\* lines 350-354: wait_for_openwrk has returned; its error fails the start,
\* and so does a health payload without the engine's entry
EsDWaitReturn(t, opencode) ==
    /\ pc[t] = "es_d_health"
    /\ wait.call = loc[t].id
    /\ wait.pc = "done"
    /\ wait' = [Wait0 EXCEPT !.call = loc[t].id]
    /\ IF ~wait.ok
       THEN Return(t, RetErr(t, << "Failed to start openwrk: " >> \o wait.err))
       ELSE IF ~opencode
       THEN Return(t, RetErr(t, NoOpencodeText))
       ELSE Goto(t, "es_d_engine") /\ UNCHANGED loc
    /\ UNCHANGED << proc, rx, engine, openwrk, openwork, owpenbot, lock, output_state,
                    calls, chunks, wrote, missed, exits, cfg, doctor, poison,
                    standalone, fs >>

\* the steps of engine_start after its call, the loops iteration by iteration
TimedStep(t) ==
    \/ EsLock(t)
    \/ \E found \in BOOLEAN : EsOpenwrk(t, found)
    \/ \E ok \in BOOLEAN : EsSpawn(t, ok)
    \/ EsWarmupExited(t)
    \/ EsWarmupSleep(t)
    \/ \E hp_ok \in BOOLEAN : EsWarmupBreak(t, hp_ok)
    \/ \E ok \in BOOLEAN : EsOpenwork(t, ok)
    \/ EsRecOpenwork(t)
    \/ EsBotLock(t)
    \/ \E res \in BotResults : EsBotSpawn(t, res)
    \/ EsBotReturn(t)
    \/ EsRecOwpenbot(t)
    \/ \E ok \in BOOLEAN : EsDSpawn(t, ok)
    \/ EsDRegister(t)
    \/ EsDWaitCall(t)
    \/ EsDWaitLoop(t)
    \/ EsDWaitSleep(t)
    \/ \E outcome \in ProbeOutcomes, took \in 0..MaxProbeTicks :
            EsDWaitProbe(t, outcome, took)
    \/ \E opencode \in BOOLEAN : EsDWaitReturn(t, opencode)
    \/ \E hp_ok \in BOOLEAN : EsDEngine(t, hp_ok)

\* the first engine_start finds no earlier child to kill, so that no process
\* is left dying
NextTimed ==
    \/ \E p \in Pids, s \in {"Stdout", "Stderr"} : ProcOutput(p, s)
    \/ \E p \in Pids, ev \in ExitEvents : ProcExit(p, ev)
    \/ \E p \in Pids : MuxStep(p)
    \/ \E t \in Threads, r \in Runtimes : Call(t, "engine_start", r, "es_lock")
    \/ \E t \in Threads : TimedStep(t)

\* the thread that runs engine_start keeps running, and so do the tasks
FairnessTimed ==
    /\ \A t \in Threads : WF_vars(TimedStep(t))
    /\ \A p \in Pids : WF_vars(MuxStep(p))

SpecTimed == InitTimed /\ [][NextTimed]_vars /\ FairnessTimed

(***************************************************************************)
(* Resolution of the engine executable: resolve_sidecar_candidate and      *)
(* resolve_engine_path (engine/doctor.rs), resolve_opencode_executable,    *)
(* resolve_in_path and candidate_opencode_paths (src-tauri/src/lib.rs),    *)
(* and the error engine_start builds from the notes (lines 246-258).       *)
(* A path is a string, the empty string is no path, a file system is the   *)
(* set of the paths that are files.                                        *)
(***************************************************************************)
NoPath == ""

OPENCODE_EXECUTABLE == "opencode"

\* Path::join
Join(dir, name) == dir \o "/" \o name

\* a sequence of characters as a string
RECURSIVE Concat(_)
Concat(chars) == IF chars = <<>> THEN "" ELSE Head(chars) \o Concat(Tail(chars))

\* Vec<String>::join("\n")
RECURSIVE JoinLines(_)
JoinLines(notes) ==
    IF notes = <<>> THEN ""
    ELSE IF Len(notes) = 1 THEN notes[1]
    ELSE notes[1] \o "\n" \o JoinLines(Tail(notes))

\* candidates that put the resource directory before the directory of the
\* running binary (C30 tells them apart)
SidecarCandidates_resources_first(resource_dir, current_bin_dir) ==
    (IF resource_dir # NoPath
     THEN << Join(Join(resource_dir, "sidecars"), OPENCODE_EXECUTABLE),
             Join(resource_dir, OPENCODE_EXECUTABLE) >>
     ELSE << >>)
    \o (IF current_bin_dir # NoPath THEN << Join(current_bin_dir, OPENCODE_EXECUTABLE) >>
        ELSE << >>)
    \o << Join("src-tauri/sidecars", OPENCODE_EXECUTABLE) >>

\* resolve_sidecar_candidate, lines 66-88: the candidates in the order tried
SidecarCandidates(resource_dir, current_bin_dir) ==
    (IF current_bin_dir # NoPath THEN << Join(current_bin_dir, OPENCODE_EXECUTABLE) >>
     ELSE << >>)
    \o (IF resource_dir # NoPath
        THEN << Join(Join(resource_dir, "sidecars"), OPENCODE_EXECUTABLE),
                Join(resource_dir, OPENCODE_EXECUTABLE) >>
        ELSE << >>)
    \o << Join("src-tauri/sidecars", OPENCODE_EXECUTABLE) >>

\* for candidate in candidates: the first one that is a file wins, every one
\* before it leaves a note
RECURSIVE TryCandidates(_, _, _, _)
TryCandidates(candidates, files, found, missing) ==
    IF candidates = <<>> THEN [resolved |-> NoPath, notes |-> <<>>]
    ELSE IF Head(candidates) \in files
    THEN [resolved |-> Head(candidates), notes |-> << found \o Head(candidates) >>]
    ELSE LET rest == TryCandidates(Tail(candidates), files, found, missing) IN
         [resolved |-> rest.resolved,
          notes |-> << missing \o Head(candidates) >> \o rest.notes]

\* engine/doctor.rs 55-96
resolve_sidecar_candidate(prefer_sidecar, resource_dir, current_bin_dir, files) ==
    IF ~prefer_sidecar THEN [resolved |-> NoPath, notes |-> <<>>]
    ELSE TryCandidates(SidecarCandidates(resource_dir, current_bin_dir), files,
                       "Using bundled sidecar: ", "Sidecar missing: ")

\* lib.rs 793-806: HOME when it is set and not blank
home_dir(os_env) == IF Trim(os_env.HOME) = <<>> THEN NoPath ELSE Concat(os_env.HOME)

\* lib.rs 819-827
RECURSIVE resolve_in_path(_, _, _)
resolve_in_path(name, entries, files) ==
    IF entries = <<>> THEN NoPath
    ELSE IF Join(Head(entries), name) \in files THEN Join(Head(entries), name)
    ELSE resolve_in_path(name, Tail(entries), files)

\* lib.rs 829-845
candidate_opencode_paths(os_env) ==
    (IF home_dir(os_env) # NoPath
     THEN << Join(Join(Join(home_dir(os_env), ".opencode"), "bin"), OPENCODE_EXECUTABLE) >>
     ELSE << >>)
    \o << Join("/opt/homebrew/bin", OPENCODE_EXECUTABLE),
           Join("/usr/local/bin", OPENCODE_EXECUTABLE),
           Join("/usr/bin", OPENCODE_EXECUTABLE),
           Join("/usr/local/bin", OPENCODE_EXECUTABLE) >>

\* a resolution that searches the PATH before it looks at the override (C29
\* tells them apart)
resolve_opencode_executable_path_first(os_env, files) ==
    LET custom == IF os_env.OPENCODE_BIN_PATH = Unset THEN NoPath
                  ELSE Concat(Trim(os_env.OPENCODE_BIN_PATH))
        n1 == IF custom # NoPath THEN << "OPENCODE_BIN_PATH set but missing: " \o custom >>
              ELSE << >>
        path == resolve_in_path(OPENCODE_EXECUTABLE, os_env.PATH, files)
        known == TryCandidates(candidate_opencode_paths(os_env), files, "Found at ", "Missing: ")
    IN IF path # NoPath
       THEN [resolved |-> path, in_path |-> TRUE,
             notes |-> << "Found in PATH: " \o path >>]
       ELSE IF custom # NoPath /\ custom \in files
       THEN [resolved |-> custom, in_path |-> FALSE,
             notes |-> << "Not found on PATH", "Using OPENCODE_BIN_PATH: " \o custom >>]
       ELSE [resolved |-> known.resolved, in_path |-> FALSE,
             notes |-> << "Not found on PATH" >> \o n1 \o known.notes]

\* lib.rs 896-929
resolve_opencode_executable(os_env, files) ==
    LET custom == IF os_env.OPENCODE_BIN_PATH = Unset THEN NoPath
                  ELSE Concat(Trim(os_env.OPENCODE_BIN_PATH))
        n1 == IF custom # NoPath THEN << "OPENCODE_BIN_PATH set but missing: " \o custom >>
              ELSE << >>
        path == resolve_in_path(OPENCODE_EXECUTABLE, os_env.PATH, files)
        known == TryCandidates(candidate_opencode_paths(os_env), files, "Found at ", "Missing: ")
    IN IF custom # NoPath /\ custom \in files
       THEN [resolved |-> custom, in_path |-> FALSE,
             notes |-> << "Using OPENCODE_BIN_PATH: " \o custom >>]
       ELSE IF path # NoPath
       THEN [resolved |-> path, in_path |-> TRUE,
             notes |-> n1 \o << "Found in PATH: " \o path >>]
       ELSE [resolved |-> known.resolved, in_path |-> FALSE,
             notes |-> n1 \o << "Not found on PATH" >> \o known.notes]

\* a resolution that tries the environment before the sidecar (C19 tells
\* them apart)
resolve_engine_path_environment_first(prefer_sidecar, resource_dir, current_bin_dir, os_env, files) ==
    LET sidecar == resolve_sidecar_candidate(prefer_sidecar, resource_dir, current_bin_dir, files)
        other == resolve_opencode_executable(os_env, files)
    IN IF other.resolved # NoPath
       THEN [resolved |-> other.resolved, in_path |-> other.in_path,
             notes |-> other.notes]
       ELSE [resolved |-> sidecar.resolved, in_path |-> FALSE,
             notes |-> other.notes \o sidecar.notes]

\* engine/doctor.rs 98-112
resolve_engine_path(prefer_sidecar, resource_dir, current_bin_dir, os_env, files) ==
    LET sidecar == resolve_sidecar_candidate(prefer_sidecar, resource_dir, current_bin_dir, files)
        other == resolve_opencode_executable(os_env, files)
    IN IF sidecar.resolved # NoPath
       THEN [resolved |-> sidecar.resolved, in_path |-> FALSE, notes |-> sidecar.notes]
       ELSE [resolved |-> other.resolved, in_path |-> other.in_path,
             notes |-> sidecar.notes \o other.notes]

NotFoundHeader ==
    "OpenCode CLI not found.\n\nInstall with:\n- brew install anomalyco/tap/opencode\n"
    \o "- curl -fsSL https://opencode.ai/install | bash\n\nNotes:\n"

\* an error that names only the last note (C20 tells them apart)
NotFoundError_last_note(notes) ==
    NotFoundHeader \o (IF notes = <<>> THEN "" ELSE notes[Len(notes)])

\* commands/engine.rs 253-257
NotFoundError(notes) == NotFoundHeader \o JoinLines(notes)

\* the directories and the values of the environment the model draws from
ResourceDirs == {NoPath, "/app/res"}

BinDirs == {NoPath, "/app/bin"}

Overrides == {Unset, << " " >>, << "/custom/opencode" >>, << " ", "/custom/opencode", " " >>}

Homes == {<< >>, << " " >>, << "/home/u" >>}

PathLists == {<< >>, << "/usr/bin" >>, << "/pathdir", "/usr/local/bin" >>, << "/app/bin" >>}

\* every path some resolution looks at
AllFiles ==
    UNION {{c[i] : i \in 1..Len(c)} :
           c \in {SidecarCandidates(r, b) : r \in ResourceDirs, b \in BinDirs}}
    \cup {"/custom/opencode", Join("/pathdir", OPENCODE_EXECUTABLE)}
    \cup {c[i] : i \in 1..5, c \in {candidate_opencode_paths([HOME |-> << "/home/u" >>])}}

InitDoctor ==
    /\ Start
    /\ Standalone0
    /\ cfg = [cmds |-> [t \in Threads |-> {}], calls |-> 0, chunks |-> 0,
              exits |-> 0, procs |-> 0, auth |-> Unset,
              dirs |-> {WorkDir}]
    /\ wait = Wait0
    /\ \E prefer_sidecar \in BOOLEAN, resource_dir \in ResourceDirs,
          current_bin_dir \in BinDirs, custom \in Overrides, home \in Homes,
          entries \in PathLists, files \in SUBSET AllFiles :
          /\ Cardinality(files) <= MaxFiles
          /\ doctor = [pc |-> "called", prefer_sidecar |-> prefer_sidecar,
                       resource_dir |-> resource_dir, current_bin_dir |-> current_bin_dir,
                       os_env |-> [OPENCODE_BIN_PATH |-> custom, HOME |-> home,
                                   PATH |-> entries],
                       files |-> files,
                       sidecar |-> [resolved |-> NoPath, notes |-> << >>],
                       resolved |-> NoPath, in_path |-> FALSE, notes |-> << >>,
                       ok |-> FALSE, err |-> ""]

\* engine_start, lines 244-245: resolve the engine executable
DoctorResolve ==
    /\ doctor.pc = "called"
    /\ LET r == resolve_engine_path(doctor.prefer_sidecar, doctor.resource_dir,
                                    doctor.current_bin_dir, doctor.os_env, doctor.files)
           sidecar == resolve_sidecar_candidate(doctor.prefer_sidecar,
                          doctor.resource_dir, doctor.current_bin_dir, doctor.files)
       IN doctor' = [doctor EXCEPT !.pc = "resolved", !.sidecar = sidecar,
                                   !.resolved = r.resolved,
                                   !.in_path = r.in_path, !.notes = r.notes]
    /\ UNCHANGED << system, wait, standalone >>

\* engine_start, lines 246-258: without an executable the start fails with
\* the notes
DoctorStart ==
    /\ doctor.pc = "resolved"
    /\ doctor' = [doctor EXCEPT !.pc = "done",
                                !.ok = doctor.resolved # NoPath,
                                !.err = IF doctor.resolved # NoPath THEN ""
                                        ELSE NotFoundError(doctor.notes)]
    /\ UNCHANGED << system, wait, standalone >>

NextDoctor == DoctorResolve \/ DoctorStart

SpecDoctor == InitDoctor /\ [][NextDoctor]_vars

(***************************************************************************)
(* Properties.                                                             *)
(***************************************************************************)
\* the thread has returned from the command and no command was called since
Returned(t, cmd) ==
    /\ pc[t] = "idle"
    /\ ret[t].cmd = cmd
    /\ ret[t].id = calls
    /\ Len(ret[t].hist) = calls

\* the handle the manager of the kind holds
ChildOf(k) ==
    CASE k = "engine" -> engine.child
      [] k = "openwrk" -> openwrk.child
      [] k = "openwork" -> openwork.child
      [] k = "owpenbot" -> owpenbot.child

\* the manager of the kind holds the handle of a process that is running
RegisteredRunning(k) == ChildOf(k) # None /\ Alive(ChildOf(k))

\* C1: for the sequences start, start and start, stop, start: once the second
\* engine_start has returned, no process spawned by the first engine_start is
\* alive, and every worker kind the second one spawned has exactly one live
\* process (as long as no child ended on its own).
C1_RestartLeavesOneProcessPerKind ==
    \A t \in Threads :
        LET h == ret[t].hist
            cmds == [i \in 1..Len(h) |-> h[i].cmd]
        IN (/\ Returned(t, "engine_start")
            /\ cmds \in { << "engine_start", "engine_start" >>,
                          << "engine_start", "engine_stop", "engine_start" >> })
           => /\ \A p \in Pids :
                    (proc[p].by = "engine_start" /\ proc[p].call = 1) => ~Alive(p)
              /\ exits = 0 =>
                    \A k \in Kinds :
                        (\E p \in Pids : proc[p].kind = k /\ proc[p].call = calls)
                        => Cardinality({p \in Pids : proc[p].kind = k /\ Alive(p)}) = 1

\* C2: direct mode, the primary exits within the warm-up window: engine_start
\* returns an error that contains the captured stderr of the child, and once
\* it has returned no worker of any kind is registered as running (counting
\* only the workers that an engine_start spawned).
C2_WarmupExitFailsTheStart ==
    \A t \in Threads :
        (/\ Returned(t, "engine_start")
         /\ ~ret[t].ok
         /\ Head(ret[t].err) = "OpenCode exited immediately with status ")
        => /\ \A p \in Pids :
                 (proc[p].kind = "engine" /\ proc[p].call = calls)
                 => Contains(ret[t].err,
                             truncate_output(Trim(output_state[p].stderr), OutputCap))
           /\ \A k \in Kinds :
                 ~(RegisteredRunning(k) /\ proc[ChildOf(k)].by = "engine_start")

\* C3: a secondary worker (gateway server or bot) failed to spawn after the
\* primary passed its gate: engine_start succeeds, and the status read
\* afterwards has running = true, a connection URL and a non-empty last_stderr.
C3_SecondaryFailureIsRecorded ==
    \A t \in Threads :
        LET h == ret[t].hist IN
        (/\ Returned(t, "engine_info")
         /\ calls >= 2
         /\ h[calls - 1].cmd = "engine_start" /\ h[calls - 1].ok
         /\ openwork.child = None \/ owpenbot.child = None
         /\ \E p \in Pids : /\ proc[p].kind \in {"engine", "openwrk"}
                            /\ proc[p].call = calls - 1
                            /\ Alive(p))
        => /\ ret[t].running
           /\ ret[t].base_url # None
           /\ ret[t].last_stderr # <<>>

\* C4: for every manager, when the process of the registered child has
\* exited out-of-band, the very next snapshot reports running = false and
\* clears the child handle.
C4_NextSnapshotSeesTheExit ==
    [][\A t \in Threads :
        /\ (/\ pc[t] = "ei_lock" /\ pc'[t] = "idle"
            /\ engine.child # None /\ proc[engine.child].status = "dead")
           => (~ret'[t].running /\ engine'.child = None)
        /\ (/\ pc[t] = "ob_info" /\ pc'[t] = "idle"
            /\ owpenbot.child # None /\ proc[owpenbot.child].status = "dead")
           => (~ret'[t].running /\ owpenbot'.child = None)]_vars

\* C5: a stop on a manager with no running child kills nothing, clears the
\* connection information, leaves a state that a further stop does not change,
\* and the snapshot it returns is not running with empty connection info.
C5_StopWithoutChildIsNoOp ==
    [][\A t \in Threads :
        /\ (/\ pc[t] = "ob_stop" /\ pc'[t] = "idle"
            /\ ~RegisteredRunning("owpenbot"))
           => /\ proc' = proc /\ rx' = rx
              /\ owpenbot' = [OwpenbotState0 EXCEPT !.child_exited = TRUE]
              /\ ~ret'[t].running /\ ret'[t].base_url = None /\ ret'[t].pid = None
        /\ (/\ pc[t] = "st_openwrk" /\ pc'[t] = "st_openwork"
            /\ ~RegisteredRunning("engine") /\ ~RegisteredRunning("openwrk"))
           => /\ proc' = proc /\ rx' = rx
              /\ engine' = [engine EXCEPT !.child = None, !.base_url = None,
                                          !.opencode_username = NoCred,
                                          !.opencode_password = NoCred,
                                          !.last_stdout = <<>>, !.last_stderr = <<>>]
        /\ (pc[t] = "st_owpenbot" /\ pc'[t] = "idle")
           => (~ret'[t].running /\ ret'[t].base_url = None /\ ret'[t].pid = None)]_vars

\* a stop has returned on a manager whose child had ended on its own
C5_Witness ==
    \E t \in Threads :
        /\ Returned(t, "owpenbot_stop")
        /\ exits = 1
        /\ \E p \in Pids : proc[p].kind = "owpenbot" /\ proc[p].by = "owpenbot_start"
        /\ owpenbot.opencode_url = None

\* the buffers of the managers, with the child whose output each one holds
Buffers ==
    { [child |-> engine.child, stream |-> "stdout", text |-> engine.last_stdout],
      [child |-> engine.child, stream |-> "stderr", text |-> engine.last_stderr],
      [child |-> openwrk.child, stream |-> "stdout", text |-> openwrk.last_stdout],
      [child |-> openwrk.child, stream |-> "stderr", text |-> openwrk.last_stderr],
      [child |-> openwork.child, stream |-> "stdout", text |-> openwork.last_stdout],
      [child |-> openwork.child, stream |-> "stderr", text |-> openwork.last_stderr],
      [child |-> owpenbot.child, stream |-> "stdout", text |-> owpenbot.last_stdout],
      [child |-> owpenbot.child, stream |-> "stderr", text |-> owpenbot.last_stderr] }

\* C6: every buffer is at most the cap long; once the registered child has
\* produced more than the cap (and its task has received all of it), the
\* buffer is exactly the cap long and holds the most recent output.
C6_BuffersAreCappedTails ==
    \A b \in Buffers :
        /\ Len(b.text) <= OutputCap
        /\ (/\ b.child # None
            /\ rx[b.child] = <<>>
            /\ \A k \in Kinds : lock[k] = "free"
            /\ Len(wrote[b.child][b.stream]) > OutputCap)
           => /\ Len(b.text) = OutputCap
              /\ IsSuffix(b.text, wrote[b.child][b.stream])

\* C7: when a stop releases the manager's lock, the child it had registered
\* has terminated.
C7_StopWaitsForTheChild ==
    [][\A t \in Threads :
        /\ (pc[t] = "ob_stop" /\ pc'[t] = "idle" /\ owpenbot.child # None)
           => proc'[owpenbot.child].status = "dead"
        /\ (pc[t] = "st_owpenbot" /\ pc'[t] = "idle" /\ owpenbot.child # None)
           => proc'[owpenbot.child].status = "dead"
        /\ (pc[t] = "st_openwrk" /\ pc'[t] = "st_openwork" /\ engine.child # None)
           => proc'[engine.child].status = "dead"]_vars

\* C9: an update the multiplexer could not apply because the lock was held
\* is eventually reflected: once the stream of a registered child has ended
\* and been drained, a termination that was missed shows as child_exited.
C9_MissedTerminationIsRecorded ==
    \A p \in Pids :
        (/\ rx[p] = <<>>
         /\ proc[p].status = "dead"
         /\ \A k \in Kinds : lock[k] = "free"
         /\ \E m \in missed : m.pid = p /\ m.type \in {"Terminated", "Error"})
        => /\ engine.child = p => engine.child_exited
           /\ openwrk.child = p => openwrk.child_exited
           /\ openwork.child = p => openwork.child_exited
           /\ owpenbot.child = p => owpenbot.child_exited

\* C10: at the step in which engine_start spawns the new primary, no process
\* of any kind that an earlier engine_start spawned is alive.
C10_OldStackGoneBeforeNewPrimary ==
    [][\A t \in Threads :
        (\/ pc[t] = "es_spawn" /\ pc'[t] = "es_warmup"
         \/ pc[t] = "es_d_spawn" /\ pc'[t] = "es_d_register")
        => \A p \in Pids :
              (proc[p].by = "engine_start" /\ proc[p].call < loc[t].id) => ~Alive(p)]_vars

\* C8: a multiplexer task never waits for a manager lock; every command that
\* was called returns (no deadlock), and an engine_stop leaves its wait for
\* the engine lock only by acquiring it: a stop that waits for the lock
\* eventually acquires it.
C8_NoBlockingNoDeadlock ==
    /\ [](\A p \in Pids : Received(p) => ENABLED MuxStep(p))
    /\ [][\A t \in Threads : (pc[t] = "st_lock" /\ pc'[t] # "st_lock")
                                => lock'["engine"] = t]_vars
    /\ \A t \in Threads : (pc[t] # "idle") ~> (pc[t] = "idle")

\* an engine_stop waits for the lock that an engine_start holds while the
\* task of the new primary has an event to apply
C8_Witness ==
    /\ pc["t2"] = "st_lock"
    /\ lock["engine"] = "t1"
    /\ \E p \in Pids : proc[p].kind = "engine" /\ Received(p)

EngineCleared(state) ==
    /\ state.child = None /\ state.base_url = None /\ state.opencode_username = NoCred
    /\ state.opencode_password = NoCred
    /\ state.last_stdout = <<>> /\ state.last_stderr = <<>>

\* everything stop resets in the bot manager is reset
OwpenbotCleared(state) ==
    /\ state.child = None /\ state.workspace_path = None /\ state.opencode_url = None
    /\ state.last_stdout = <<>> /\ state.last_stderr = <<>>

HandlesTermination(p) ==
    /\ Received(p) /\ Head(rx[p]).type = "Terminated"
    /\ rx' = [rx EXCEPT ![p] = Tail(@)]

\* C13: a snapshot returns the connection info and both tails as the manager
\* holds them, whether or not the child runs, and the step in which a
\* multiplexer handles the termination of its child keeps the captured tails
\* within the buffers, so that a snapshot taken after a crash still shows the last
\* words of the process.
C13_LastWordsSurviveTermination ==
    [][/\ \A t \in Threads :
            /\ (pc[t] = "ob_info" /\ pc'[t] = "idle")
               => /\ ret'[t].base_url = owpenbot.opencode_url
                  /\ ret'[t].last_stdout = owpenbot.last_stdout
                  /\ ret'[t].last_stderr = owpenbot.last_stderr
            /\ (pc[t] = "ei_lock" /\ pc'[t] = "idle")
               => /\ ret'[t].base_url = engine.base_url
                  /\ ret'[t].last_stdout = engine.last_stdout
                  /\ ret'[t].last_stderr = engine.last_stderr
       /\ \A p \in Pids :
            HandlesTermination(p)
            => /\ Contains(engine'.last_stdout, engine.last_stdout)
               /\ Contains(engine'.last_stderr, engine.last_stderr)
               /\ Contains(owpenbot'.last_stdout, owpenbot.last_stdout)
               /\ Contains(owpenbot'.last_stderr, owpenbot.last_stderr)]_vars

\* the last_stderr a status query reads: engine_info takes it from the daemon
\* manager in daemon mode and from the engine manager otherwise
StatusStderr(eng, wrk) ==
    IF eng.runtime = "openwrk" THEN wrk.last_stderr ELSE eng.last_stderr

\* C14: when a successful engine_start returns, the error of every secondary
\* step that failed in it (the bot's health-port resolution, the gateway
\* server's spawn, the bot's spawn) is part of the last_stderr a status query
\* reads, also when more than one of them failed.
C14_EverySecondaryErrorIsVisible ==
    [][\A t \in Threads :
        (/\ pc[t] \in {"es_bot_return", "es_rec_owpenbot"}
         /\ pc'[t] = "idle")
        => LET shown == StatusStderr(engine', openwrk') IN
           /\ ~loc[t].health_port => Contains(shown, HealthPortErr)
           /\ (\A p \in Pids : ~(proc[p].kind = "openwork" /\ proc[p].call = loc[t].id))
              => Contains(shown, OpenworkErr)
           /\ loc[t].pend # <<>> => Contains(shown, loc[t].pend)]_vars

Secondaries == {"openwork", "owpenbot"}

\* the secondary workers that the engine_start with identity id has spawned
SecondariesOf(pr, id) ==
    {p \in Pids : pr[p].kind \in Secondaries /\ pr[p].by = "engine_start" /\ pr[p].call = id}

\* the primary of the engine_start with identity id has passed its gate: the
\* warm-up deadline in direct mode, the health wait in daemon mode; this is
\* when engine_start stores the connection info of the call
PassedGate(id) ==
    /\ engine.base_url = id
    /\ \E p \in Pids : /\ proc[p].call = id /\ proc[p].by = "engine_start"
                        /\ proc[p].kind = IF engine.runtime = "openwrk" THEN "openwrk"
                                           ELSE "engine"

\* C15: an engine_start spawns a gateway server or a bot only once its primary
\* has passed its gate, and an engine_start that returns an error has spawned
\* no secondary.
C15_PrimaryBeforeSecondaries ==
    [][/\ \A p \in Pids :
            (proc[p].kind = "none" /\ p \in SecondariesOf(proc', proc'[p].call))
            => PassedGate(proc'[p].call)
       /\ \A t \in Threads :
            (/\ pc[t] # "idle" /\ pc'[t] = "idle"
             /\ ret'[t].cmd = "engine_start" /\ ~ret'[t].ok)
            => SecondariesOf(proc', ret'[t].id) = {}]_vars

\* an engine_start has spawned both secondaries after its primary
C15_Witness ==
    \E t \in Threads :
        /\ Returned(t, "engine_start") /\ ret[t].ok
        /\ Cardinality(SecondariesOf(proc, ret[t].id)) = 2
        /\ PassedGate(ret[t].id)

\* C16: wait_for_openwrk returns success only on a probe whose payload has
\* ok = true, and it returns on the first such probe; when it gives up after
\* at least one probe its error is the error of the most recent probe; the
\* bare timeout text is returned only when no probe was made.
C16_WaitReturnsFirstHealthyOrLastError ==
    LET n == Len(wait.probes) IN
    /\ (\E i \in 1..n : wait.probes[i] = "healthy")
       => (wait.pc = "done" /\ wait.ok /\ wait.probes[n] = "healthy")
    /\ wait.pc = "done"
       => /\ wait.ok => (/\ n > 0 /\ wait.probes[n] = "healthy"
                         /\ \A i \in 1..(n - 1) : wait.probes[i] # "healthy")
          /\ (~wait.ok /\ n > 0) => wait.err = ProbeError(wait.probes[n])
          /\ ~wait.ok => (wait.err = TimedOutText <=> n = 0)

\* the wait has given up after probes that failed in different ways
C16_Witness ==
    /\ wait.pc = "done" /\ ~wait.ok
    /\ Len(wait.probes) >= 2
    /\ wait.probes[1] # wait.probes[Len(wait.probes)]

\* C17: every engine_start returns: the warm-up loop ends with the exit
\* error or once its deadline is reached, never sleeping past the deadline,
\* and the daemon's health wait ends with success or an error, never probing
\* once its timeout has passed.
C17_EngineStartReturns ==
    /\ \A t \in Threads : (pc[t] # "idle") ~> (pc[t] = "idle")
    /\ [](\A t \in Threads : loc[t].warm <= WarmupTicks)
    /\ [](wait.pc = "probe" => wait.elapsed < wait.timeout)

\* an engine_start has returned after a health wait that ran into its timeout
C17_Witness ==
    \E t \in Threads :
        /\ Returned(t, "engine_start")
        /\ ~ret[t].ok
        /\ ret[t].err = << "Failed to start openwrk: " >> \o UnhealthyText

\* what engine_info returns in the current state (lines 29-75)
EngineInfoNow ==
    IF engine.runtime = "openwrk"
    THEN [running |-> DaemonStatus.running, base_url |-> DaemonStatus.opencode,
          pid |-> DaemonStatus.pid,
          last_stdout |-> openwrk.last_stdout, last_stderr |-> openwrk.last_stderr]
    ELSE Engine_snapshot_info(engine, proc)

\* C18: the status a successful engine_start returns is the status that
\* engine_info returns in the state the start leaves behind: the same running
\* flag, connection info, process id and output tails, in direct mode and in
\* daemon mode.
C18_StartReturnsWhatInfoReturns ==
    [][\A t \in Threads :
        (/\ pc[t] # "idle" /\ pc'[t] = "idle"
         /\ ret'[t].cmd = "engine_start" /\ ret'[t].ok)
        => /\ ret'[t].running = EngineInfoNow'.running
           /\ ret'[t].base_url = EngineInfoNow'.base_url
           /\ ret'[t].pid = EngineInfoNow'.pid
           /\ ret'[t].last_stdout = EngineInfoNow'.last_stdout
           /\ ret'[t].last_stderr = EngineInfoNow'.last_stderr]_vars

\* the notes that speak of a sidecar location
SidecarNotes ==
    {label \o f : label \in {"Using bundled sidecar: ", "Sidecar missing: "}, f \in AllFiles}

\* C19: with prefer_sidecar = true and a bundled sidecar present at one of the
\* candidate locations, resolve_engine_path returns the first such sidecar
\* with in_path = false, whatever the override variable and the search path
\* hold; with prefer_sidecar = false the result does not depend on the
\* sidecar locations and no note speaks of a sidecar.
C19_SidecarPreferredWhenRequested ==
    LET cands == SidecarCandidates(doctor.resource_dir, doctor.current_bin_dir)
        present == {i \in 1..Len(cands) : cands[i] \in doctor.files}
    IN doctor.pc # "called"
       => /\ (doctor.prefer_sidecar /\ present # {})
             => /\ \E i \in present : /\ \A j \in present : i <= j
                                       /\ doctor.resolved = cands[i]
                /\ ~doctor.in_path
          /\ ~doctor.prefer_sidecar
             => /\ \A i \in 1..Len(doctor.notes) : doctor.notes[i] \notin SidecarNotes
                /\ LET r == resolve_engine_path(FALSE, NoPath, NoPath,
                                                doctor.os_env, doctor.files)
                   IN /\ doctor.resolved = r.resolved
                      /\ doctor.in_path = r.in_path
                      /\ doctor.notes = r.notes

\* a sidecar at the second candidate location was chosen although the
\* override variable names an existing file
C19_Witness ==
    /\ doctor.pc = "resolved"
    /\ doctor.prefer_sidecar
    /\ doctor.os_env.OPENCODE_BIN_PATH = << "/custom/opencode" >>
    /\ "/custom/opencode" \in doctor.files
    /\ doctor.current_bin_dir # NoPath
    /\ doctor.resolved = "/app/res/sidecars/opencode"

\* C20: when no executable is resolved, engine_start fails with the install
\* hint followed by the notes, one per candidate tried and rejected, in the
\* order tried: every sidecar candidate when the sidecar was requested, the
\* override path when one is set, the search path, every known install
\* location.
C20_NotFoundErrorCarriesTheNotes ==
    LET cands == SidecarCandidates(doctor.resource_dir, doctor.current_bin_dir)
        known == candidate_opencode_paths(doctor.os_env)
        custom == IF doctor.os_env.OPENCODE_BIN_PATH = Unset THEN << >>
                  ELSE Trim(doctor.os_env.OPENCODE_BIN_PATH)
        tried ==
            (IF doctor.prefer_sidecar
             THEN [i \in 1..Len(cands) |-> "Sidecar missing: " \o cands[i]] ELSE << >>)
            \o (IF custom # << >>
                THEN << "OPENCODE_BIN_PATH set but missing: " \o Concat(custom) >>
                ELSE << >>)
            \o << "Not found on PATH" >>
            \o [i \in 1..Len(known) |-> "Missing: " \o known[i]]
    IN (doctor.pc = "done" /\ doctor.resolved = NoPath)
       => /\ ~doctor.ok
          /\ doctor.notes = tried
          /\ doctor.err = NotFoundHeader \o JoinLines(tried)

\* the start has failed after sidecar candidates, an override path, the
\* search path and the install locations were all tried, with files around
\* that are no candidates of this call
C20_Witness ==
    /\ doctor.pc = "done" /\ ~doctor.ok
    /\ doctor.prefer_sidecar
    /\ doctor.resource_dir # NoPath
    /\ doctor.os_env.OPENCODE_BIN_PATH = << " ", "/custom/opencode", " " >>
    /\ doctor.os_env.PATH # << >>
    /\ doctor.files # {}
    /\ Len(doctor.notes) = 10

\* thread t spawns a process in this step
SpawnsProcess(t) ==
    /\ pc'[t] # pc[t]
    /\ \E p \in Pids : proc[p].kind = "none" /\ proc'[p].kind # "none"

\* thread t asks the daemon for its status over HTTP in this step
\* (resolve_openwrk_status in engine_info)
FetchesStatus(t) == pc[t] = "ei_openwrk" /\ pc'[t] = "idle"

\* C21: a thread that spawns a process or makes an HTTP request holds no
\* manager lock while it does so: the locks are held over field reads and
\* writes only.
C21_NoLockHeldAcrossIo ==
    [][\A t \in Threads :
        (SpawnsProcess(t) \/ FetchesStatus(t))
        => \A k \in Kinds : lock[k] # t]_vars

(***************************************************************************)
(* Poisoned mutexes.  The guarded sections call truncate_output and        *)
(* format!, which can panic; the unwinding drops the guard and poisons the *)
(* mutex for every later lock() and try_lock().                            *)
(***************************************************************************)
\* a thread or a task panics while it holds the mutex of manager k
PoisonMutex(k) ==
    /\ lock[k] = "free"
    /\ ~Poisoned(k)
    /\ poison' = poison \cup {k}
    /\ UNCHANGED << proc, rx, engine, openwrk, openwork, owpenbot, lock,
                    output_state, pc, loc, ret, calls, chunks, exits, wrote,
                    missed, cfg, wait, doctor, standalone, fs >>

\* every step of a command after its call
CommandStep(t) ==
    \/ StartStep(t)
    \/ StopStep(t)
    \/ EiLock(t)
    \/ EiOpenwrk(t)
    \/ ObLock(t)
    \/ \E res \in BotResults : ObSpawn(t, res)
    \/ ObReturn(t)
    \/ ObStop(t)
    \/ ObInfo(t)

NextPoison ==
    \/ \E k \in Kinds : PoisonMutex(k)
    \/ \E p \in Pids, ev \in ExitEvents : ProcExit(p, ev)
    \/ \E p \in Pids : ProcDie(p)
    \/ \E p \in Pids : MuxStep(p)
    \/ \E t \in Threads, r \in Runtimes : Call(t, "engine_start", r, "es_lock")
    \/ \E t \in Threads : Call(t, "engine_stop", "direct", "st_lock")
    \/ \E t \in Threads : Call(t, "engine_info", "direct", "ei_lock")
    \/ \E t \in Threads : Call(t, "owpenbot_start", "direct", "ob_lock")
    \/ \E t \in Threads : Call(t, "owpenbot_stop", "direct", "ob_stop")
    \/ \E t \in Threads : Call(t, "owpenbot_info", "direct", "ob_info")
    \/ \E t \in Threads : CommandStep(t)

SpecPoison == InitPoison /\ [][NextPoison]_vars

\* the statements of the commands that lock the mutex of manager k
LockSites(k) ==
    CASE k = "engine" -> {"es_lock", "es_d_engine", "es_rec_openwork",
                          "es_rec_owpenbot", "st_lock", "ei_lock"}
      [] k = "openwrk" -> {"es_openwrk", "es_d_register", "st_openwrk", "ei_openwrk"}
      [] k = "openwork" -> {"st_openwork"}
      [] k = "owpenbot" -> {"es_bot_lock", "ob_lock", "ob_stop", "ob_info",
                            "st_owpenbot"}

\* thread t executes a statement that locks the poisoned mutex of manager k
MeetsPoison(t, k) == Poisoned(k) /\ pc[t] \in LockSites(k) /\ pc'[t] # pc[t]

\* the step ends the command with a panic or an error, or hands the error of
\* the called owpenbot_start to engine_start
EndsLoudly(t) ==
    \/ pc'[t] = "idle" /\ ~ret'[t].ok
    \/ pc[t] = "es_bot_lock" /\ loc'[t].pend # <<>>

\* C22: whenever a command reaches a statement that needs a manager whose
\* mutex is poisoned, the command panics or returns an error at that
\* statement; it never skips the manager and goes on.
C22_PoisonIsLoud ==
    [][\A t \in Threads, k \in Kinds : MeetsPoison(t, k) => EndsLoudly(t)]_vars

\* the primary of the engine_start with the call number id: the engine it
\* spawned in direct mode, the daemon it spawned in daemon mode
PrimaryOf(id) ==
    {p \in Pids : /\ proc[p].by = "engine_start"
                  /\ proc[p].call = id
                  /\ proc[p].kind \in {"engine", "openwrk"}}

\* thread t returns from a successful engine_start in this step
StartSucceeds(t) ==
    /\ pc[t] # "idle"
    /\ pc'[t] = "idle"
    /\ ret'[t].cmd = "engine_start"
    /\ ret'[t].ok

\* C23: engine_start never returns a status with running = true for a
\* primary that has exited between its spawn and the return.
C23_NoSuccessForExitedPrimary ==
    [][\A t \in Threads :
        (StartSucceeds(t) /\ ret'[t].running)
        => \A p \in PrimaryOf(ret'[t].id) : NotTerminated(p)]_vars

\* the WorkerState of the kind
StateOf(k) ==
    CASE k = "engine" -> engine
      [] k = "openwrk" -> openwrk
      [] k = "openwork" -> openwork
      [] k = "owpenbot" -> owpenbot

\* new is old with one chunk appended at the end and the characters over the
\* cap dropped from the front (the chunk may be empty)
AppendedTo(old, new) ==
    \E i \in 1..(Len(new) + 1) :
        new = AppendOutput(old, SubSeq(new, i, Len(new)))

\* C24: while the child of a manager is running, a step changes each output
\* buffer of the manager only by appending a chunk at the end and dropping
\* characters from the front once the cap is exceeded; no step replaces the
\* content already buffered.
C24_BuffersAreAppendOnly ==
    [][\A k \in Kinds :
        (RegisteredRunning(k) /\ RegisteredRunning(k)' /\ ChildOf(k)' = ChildOf(k))
        => /\ AppendedTo(StateOf(k).last_stdout, StateOf(k)'.last_stdout)
           /\ AppendedTo(StateOf(k).last_stderr, StateOf(k)'.last_stderr)]_vars

\* the characters the process has written to its two streams
WrittenBy(p) ==
    {wrote[p].stdout[i] : i \in 1..Len(wrote[p].stdout)}
    \cup {wrote[p].stderr[i] : i \in 1..Len(wrote[p].stderr)}

\* the characters in the two output buffers of the manager of the kind
BufferedIn(k) ==
    {StateOf(k).last_stdout[i] : i \in 1..Len(StateOf(k).last_stdout)}
    \cup {StateOf(k).last_stderr[i] : i \in 1..Len(StateOf(k).last_stderr)}

\* the last command was a stop of the manager of the kind, and it has returned
StoppedLast(k) ==
    \E t \in Threads :
        \/ Returned(t, "engine_stop")
        \/ k = "owpenbot" /\ Returned(t, "owpenbot_stop") /\ ret[t].ok

\* C25: after a stop, and after a restart, the output buffers of a manager
\* hold no output of a previous child: once a stop has returned they hold no
\* child output at all, and while a child is registered they hold no output
\* of any other process, whatever the tasks of earlier children still drain.
C25_NoOutputOfPreviousChild ==
    \A k \in Kinds :
        /\ StoppedLast(k) => \A p \in Pids : BufferedIn(k) \cap WrittenBy(p) = {}
        /\ ChildOf(k) # None
           => \A p \in Pids \ {ChildOf(k)} : BufferedIn(k) \cap WrittenBy(p) = {}

\* the connection info the manager of the kind holds
ConnInfo(k) ==
    CASE k = "engine" -> << engine.base_url >>
      [] k = "openwrk" -> << openwrk.data_dir >>
      [] k = "openwork" -> << openwork.base_url >>
      [] k = "owpenbot" -> << owpenbot.workspace_path, owpenbot.opencode_url >>

\* the task of process p handles a Terminated or an Error event in this step
HandlesExit(p) ==
    /\ Received(p)
    /\ Head(rx[p]).type \in {"Terminated", "Error"}
    /\ rx'[p] = Tail(rx[p])

\* C26: when a multiplexer task handles a termination event or a spawn-level
\* error event, the manager has child_exited = true afterwards, and its child
\* handle and its connection info are what they were before.
C26_ExitEventSetsOnlyTheFlag ==
    [][\A p \in Pids :
        HandlesExit(p)
        => /\ StateOf(proc[p].kind)'.child_exited
           /\ ChildOf(proc[p].kind)' = ChildOf(proc[p].kind)
           /\ ConnInfo(proc[p].kind)' = ConnInfo(proc[p].kind)]_vars

\* thread t returns the snapshot of the engine manager in this step:
\* engine_info in direct mode (line 74)
ReturnsEngineSnapshot(t) ==
    pc[t] = "ei_lock" /\ pc'[t] = "idle" /\ ret'[t].ok

\* thread t returns the snapshot of the bot manager in this step:
\* owpenbot_start (line 206), owpenbot_info (lines 30-36)
ReturnsBotSnapshot(t) ==
    pc[t] \in {"ob_return", "ob_info"} /\ pc'[t] = "idle" /\ ret'[t].ok

\* C27: a snapshot reports running = true exactly when it returns a process
\* id and exactly when the child handle is still registered after the call;
\* the only field of the manager it may change is the handle, which it may
\* only clear: connection info, credentials and output buffers stay.
C27_SnapshotClearsOnlyTheHandle ==
    [][\A t \in Threads :
        /\ ReturnsEngineSnapshot(t)
           => /\ ret'[t].running <=> ret'[t].pid # None
              /\ ret'[t].running <=> engine'.child # None
              /\ engine'.child \in {engine.child, None}
              /\ engine' = [engine EXCEPT !.child = engine'.child]
        /\ ReturnsBotSnapshot(t)
           => /\ Owpenbot_snapshot_info(owpenbot).running <=> ret'[t].pid # None
              /\ ret'[t].pid # None <=> owpenbot'.child # None
              /\ owpenbot'.child \in {owpenbot.child, None}
              /\ owpenbot' = [owpenbot EXCEPT !.child = owpenbot'.child]]_vars

\* engine_info has found the engine gone and cleared the handle; the
\* connection info and the last error output are still there
C27_Witness ==
    \E t \in Threads :
        /\ Returned(t, "engine_info")
        /\ ret[t].ok /\ ~ret[t].running /\ ret[t].pid = None
        /\ engine.child = None
        /\ engine.base_url # None
        /\ engine.last_stderr # <<>>
        /\ \E p \in Pids : proc[p].kind = "engine" /\ proc[p].status = "dead"

\* thread t executes a statement of owpenbot_start, owpenbot_stop or
\* owpenbot_info in this step
BotCommandStep(t) ==
    /\ pc[t] \in {"ob_lock", "ob_spawn", "ob_return", "ob_stop", "ob_info"}
    /\ pc'[t] # pc[t]

\* thread t executes EngineManager::stop_locked (engine_start, line 240) or
\* EngineManager::snapshot_locked (engine_info, line 74) in this step
EngineManagerStep(t) ==
    /\ pc[t] \in {"es_lock", "ei_lock"}
    /\ pc'[t] # pc[t]

\* C28: the operations of a manager change its own state only: the bot's
\* commands, with the snapshot and the stop of the bot manager, never change
\* the state of the engine, the daemon or the gateway server; the snapshot
\* and the stop of the engine manager change the engine's state only.
C28_ManagersKeepToTheirOwnState ==
    [][\A t \in Threads :
        /\ BotCommandStep(t)
           => /\ engine' = engine
              /\ openwrk' = openwrk
              /\ openwork' = openwork
        /\ EngineManagerStep(t)
           => /\ openwrk' = openwrk
              /\ openwork' = openwork
              /\ owpenbot' = owpenbot]_vars

\* owpenbot_stop has cleared the bot that engine_start had spawned; the
\* engine is still registered, with its connection info
C28_Witness ==
    \E t \in Threads :
        /\ Returned(t, "owpenbot_stop")
        /\ ret[t].ok
        /\ OwpenbotCleared(owpenbot)
        /\ \E p \in Pids : proc[p].kind = "owpenbot" /\ proc[p].status # "alive"
        /\ RegisteredRunning("engine")
        /\ engine.base_url # None

\* every location a call looks at, in the order of the strategies: the sidecar
\* candidates when the sidecar is requested, the override when it is set and
\* not blank, the directories of the search path, the known install locations
Strategies(prefer_sidecar, resource_dir, current_bin_dir, os_env) ==
    LET cands == SidecarCandidates(resource_dir, current_bin_dir)
        custom == IF os_env.OPENCODE_BIN_PATH = Unset THEN << >>
                  ELSE Trim(os_env.OPENCODE_BIN_PATH)
        known == candidate_opencode_paths(os_env)
    IN (IF prefer_sidecar
        THEN [i \in 1..Len(cands) |-> [strategy |-> "sidecar", at |-> cands[i]]]
        ELSE << >>)
       \o (IF custom # << >>
           THEN << [strategy |-> "override", at |-> Concat(custom)] >>
           ELSE << >>)
       \o [i \in 1..Len(os_env.PATH) |->
              [strategy |-> "path", at |-> Join(os_env.PATH[i], OPENCODE_EXECUTABLE)]]
       \o [i \in 1..Len(known) |-> [strategy |-> "known", at |-> known[i]]]

\* the note a rejected location leaves
RejectedNote(s) ==
    CASE s.strategy = "sidecar" -> "Sidecar missing: " \o s.at
      [] s.strategy = "override" -> "OPENCODE_BIN_PATH set but missing: " \o s.at
      [] s.strategy = "path" -> "Not found on PATH"
      [] s.strategy = "known" -> "Missing: " \o s.at

\* C29: the resolution tries the sidecar candidates (when requested), then
\* the override, then the directories of the search path, then the known
\* install locations, each in its order: the first location that is an
\* existing file is the result, in_path is true exactly when that location
\* came from the search path, and every strategy rejected before the winner
\* has left its note.
C29_StrategiesInPriorityOrder ==
    LET all == Strategies(doctor.prefer_sidecar, doctor.resource_dir,
                          doctor.current_bin_dir, doctor.os_env)
        hits == {i \in 1..Len(all) : all[i].at \in doctor.files}
        win == IF hits = {} THEN Len(all) + 1
               ELSE CHOOSE i \in hits : \A j \in hits : i <= j
        noted == {doctor.notes[i] : i \in 1..Len(doctor.notes)}
    IN doctor.pc # "called"
       => /\ hits = {} => doctor.resolved = NoPath /\ ~doctor.in_path
          /\ hits # {} => /\ doctor.resolved = all[win].at
                          /\ doctor.in_path <=> all[win].strategy = "path"
          /\ \A i \in 1..(win - 1) :
                (all[i].strategy = "path"
                 => (win > Len(all) \/ all[win].strategy # "path"))
                => RejectedNote(all[i]) \in noted
          /\ (win > Len(all) \/ all[win].strategy = "known")
             => "Not found on PATH" \in noted

\* a known install location won after a sidecar candidate, the override and
\* the search path were rejected
C29_Witness ==
    /\ doctor.pc = "resolved"
    /\ doctor.prefer_sidecar
    /\ doctor.os_env.OPENCODE_BIN_PATH = << "/custom/opencode" >>
    /\ doctor.os_env.PATH = << "/usr/bin" >>
    /\ doctor.resolved = "/usr/local/bin/opencode"
    /\ ~doctor.in_path
    /\ "OPENCODE_BIN_PATH set but missing: /custom/opencode" = doctor.notes[Len(doctor.notes) - 3]

\* the argument is given: Some(dir)
IsSome(c) == c.dir # NoPath

\* C30: resolve_sidecar_candidate(true, resource_dir, current_bin_dir)
\* returns the first existing file among current_bin_dir/opencode,
\* resource_dir/sidecars/opencode, resource_dir/opencode and
\* src-tauri/sidecars/opencode, in this order and without the entries whose
\* directory argument is None; its notes are one "Sidecar missing" note per
\* earlier candidate and then the "Using bundled sidecar" note. When none
\* exists it returns None, with a "Sidecar missing" note for every candidate.
C30_FirstExistingSidecar ==
    LET four == << [dir |-> doctor.current_bin_dir,
                    at |-> doctor.current_bin_dir \o "/opencode"],
                   [dir |-> doctor.resource_dir,
                    at |-> doctor.resource_dir \o "/sidecars/opencode"],
                   [dir |-> doctor.resource_dir,
                    at |-> doctor.resource_dir \o "/opencode"],
                   [dir |-> "src-tauri", at |-> "src-tauri/sidecars/opencode"] >>
        given == SelectSeq(four, IsSome)
        hits == {i \in 1..Len(given) : given[i].at \in doctor.files}
        first == CHOOSE i \in hits : \A j \in hits : i <= j
    IN (doctor.pc # "called" /\ doctor.prefer_sidecar)
       => IF hits = {}
          THEN /\ doctor.sidecar.resolved = NoPath
               /\ doctor.sidecar.notes =
                     [i \in 1..Len(given) |-> "Sidecar missing: " \o given[i].at]
          ELSE /\ doctor.sidecar.resolved = given[first].at
               /\ doctor.sidecar.notes =
                     [i \in 1..first |->
                        IF i < first THEN "Sidecar missing: " \o given[i].at
                        ELSE "Using bundled sidecar: " \o given[i].at]

\* the third of four candidates was the first one to exist
C30_Witness ==
    /\ doctor.pc = "resolved"
    /\ doctor.prefer_sidecar
    /\ doctor.sidecar.resolved = "/app/res/opencode"
    /\ doctor.sidecar.notes = << "Sidecar missing: /app/bin/opencode",
                                 "Sidecar missing: /app/res/sidecars/opencode",
                                 "Using bundled sidecar: /app/res/opencode" >>
    /\ "src-tauri/sidecars/opencode" \in doctor.files

(***************************************************************************)
(* maybe_infer_xdg_home (paths.rs) as spawn_engine calls it                *)
(* (engine/spawn.rs 53-76).                                                *)
(***************************************************************************)
\* paths.rs 7-21: HOME, else USERPROFILE, when set and not blank
paths_home_dir(os_env) ==
    IF os_env.HOME # Unset /\ Trim(os_env.HOME) # <<>> THEN Concat(os_env.HOME)
    ELSE IF os_env.USERPROFILE # Unset /\ Trim(os_env.USERPROFILE) # <<>>
    THEN Concat(os_env.USERPROFILE)
    ELSE NoPath

MACOS_APP_SUPPORT_DIR == "Library/Application Support"

\* paths.rs 23-38; the third candidate exists in a macOS build only
candidate_xdg_data_dirs(os_env, macos) ==
    LET home == paths_home_dir(os_env) IN
    IF home = NoPath THEN << >>
    ELSE << Join(Join(home, ".local"), "share"), Join(home, ".config") >>
         \o (IF macos THEN << Join(home, MACOS_APP_SUPPORT_DIR) >> ELSE << >>)

\* paths.rs 40-54
candidate_xdg_config_dirs(os_env, macos) ==
    LET home == paths_home_dir(os_env) IN
    IF home = NoPath THEN << >>
    ELSE << Join(home, ".config") >>
         \o (IF macos THEN << Join(home, MACOS_APP_SUPPORT_DIR) >> ELSE << >>)

\* for base in candidates: the first base that holds the marker
RECURSIVE FirstWithMarker(_, _, _)
FirstWithMarker(candidates, relative_marker, files) ==
    IF candidates = <<>> THEN NoPath
    ELSE IF Join(Head(candidates), relative_marker) \in files THEN Head(candidates)
    ELSE FirstWithMarker(Tail(candidates), relative_marker, files)

\* a maybe_infer_xdg_home that does not look at the variable (C31 tells them
\* apart)
maybe_infer_xdg_home_always(value, candidates, relative_marker, files) ==
    FirstWithMarker(candidates, relative_marker, files)

\* paths.rs 56-72; value is what env::var_os(var_name) returns
maybe_infer_xdg_home(value, candidates, relative_marker, files) ==
    IF value # Unset THEN NoPath
    ELSE FirstWithMarker(candidates, relative_marker, files)

DataMarker == "opencode/auth.json"

ConfigMarkers == << "opencode/opencode.jsonc", "opencode/opencode.json" >>

\* the values of the environment the model draws from
XdgValues == {Unset, << >>, << "/xdg" >>}

XdgHomes == {Unset, << " " >>, << "/home/u" >>}

XdgProfiles == {Unset, << "/users/u" >>}

\* every marker file some call looks at
AllMarkers ==
    LET envs == {[HOME |-> h, USERPROFILE |-> u] : h \in XdgHomes, u \in XdgProfiles}
        data == UNION {{candidate_xdg_data_dirs(e, TRUE)[i] :
                            i \in 1..Len(candidate_xdg_data_dirs(e, TRUE))} : e \in envs}
        config == UNION {{candidate_xdg_config_dirs(e, TRUE)[i] :
                            i \in 1..Len(candidate_xdg_config_dirs(e, TRUE))} : e \in envs}
    IN {Join(b, DataMarker) : b \in data}
       \cup {Join(b, ConfigMarkers[i]) : b \in config, i \in 1..2}

InitXdg ==
    /\ Start
    /\ cfg = [cmds |-> [t \in Threads |-> {}], calls |-> 0, chunks |-> 0,
              exits |-> 0, procs |-> 0, auth |-> Unset,
              dirs |-> {WorkDir}]
    /\ wait = Wait0
    /\ doctor = Doctor0
    /\ trunc = Trunc0
    /\ workspaces = Workspaces0
    /\ \E data \in XdgValues, config \in XdgValues, home \in XdgHomes,
          profile \in XdgProfiles, macos \in BOOLEAN, files \in SUBSET AllMarkers :
          /\ Cardinality(files) <= MaxMarkers
          /\ xdg = [pc |-> "spawning",
                    os_env |-> [XDG_DATA_HOME |-> data, XDG_CONFIG_HOME |-> config,
                                HOME |-> home, USERPROFILE |-> profile],
                    macos |-> macos, files |-> files,
                    calls |-> << >>,
                    child_env |-> [XDG_DATA_HOME |-> NoPath, XDG_CONFIG_HOME |-> NoPath]]

\* one call of maybe_infer_xdg_home, as the record the model keeps of it
XdgCall(var_name, candidates, relative_marker) ==
    [var_name |-> var_name, candidates |-> candidates,
     relative_marker |-> relative_marker,
     result |-> maybe_infer_xdg_home(xdg.os_env[var_name], candidates,
                                     relative_marker, xdg.files)]

\* spawn_engine, lines 53-59: the data home
XdgData ==
    /\ xdg.pc = "spawning"
    /\ LET call == XdgCall("XDG_DATA_HOME",
                           candidate_xdg_data_dirs(xdg.os_env, xdg.macos), DataMarker)
       IN xdg' = [xdg EXCEPT !.pc = "data_done",
                             !.calls = Append(@, call),
                             !.child_env.XDG_DATA_HOME = call.result]
    /\ UNCHANGED << system, wait, doctor, trunc, workspaces >>

\* spawn_engine, lines 61-76: the config home, by the first marker or else by
\* the second one
XdgConfig ==
    /\ xdg.pc = "data_done"
    /\ LET dirs == candidate_xdg_config_dirs(xdg.os_env, xdg.macos)
           first == XdgCall("XDG_CONFIG_HOME", dirs, ConfigMarkers[1])
           second == XdgCall("XDG_CONFIG_HOME", dirs, ConfigMarkers[2])
       IN xdg' = [xdg EXCEPT
                    !.pc = "done",
                    !.calls = IF first.result # NoPath THEN Append(@, first)
                              ELSE @ \o << first, second >>,
                    !.child_env.XDG_CONFIG_HOME =
                        IF first.result # NoPath THEN first.result ELSE second.result]
    /\ UNCHANGED << system, wait, doctor, trunc, workspaces >>

NextXdg == XdgData \/ XdgConfig

SpecXdg == InitXdg /\ [][NextXdg]_vars

\* C31: a call of maybe_infer_xdg_home yields a value only if its variable
\* is not set in the environment of the spawning process and some candidate
\* holds the marker file; the value is then the first such candidate in the
\* order of the list. When the variable is set (even to the empty string) no
\* value is produced, whatever the candidates hold.
C31_InferredOnlyWhenUnsetAndMarked ==
    \A n \in 1..Len(xdg.calls) :
        LET call == xdg.calls[n]
            marked == {i \in 1..Len(call.candidates) :
                         (call.candidates[i] \o "/" \o call.relative_marker) \in xdg.files}
        IN /\ xdg.os_env[call.var_name] # Unset => call.result = NoPath
           /\ call.result # NoPath
              => /\ xdg.os_env[call.var_name] = Unset
                 /\ marked # {}
           /\ (xdg.os_env[call.var_name] = Unset /\ marked # {})
              => \E i \in marked : /\ \A j \in marked : i <= j
                                    /\ call.result = call.candidates[i]

\* the data home was inferred from the second candidate; the config home
\* was not, because its variable is set, although a marker is there
C31_Witness ==
    /\ xdg.pc = "done"
    /\ xdg.child_env.XDG_DATA_HOME = "/home/u/.config"
    /\ xdg.os_env.XDG_CONFIG_HOME = << >>
    /\ xdg.child_env.XDG_CONFIG_HOME = NoPath
    /\ "/home/u/.config/opencode/opencode.jsonc" \in xdg.files

(***************************************************************************)
(* The credentials of engine_start (commands/engine.rs lines 224-237): the *)
(* toggle OPENWORK_OPENCODE_AUTH is read once per call, the pair is        *)
(* generated from it, and the same two options are handed to every spawn   *)
(* of the call and to the engine state.                                    *)
(***************************************************************************)
AuthCalls == 2

AuthProcs == 3

AuthExits == 1

\* the values of the toggle: unset, the two spellings that enable, and
\* values that disable
AuthValues == {Unset, << "1" >>, << "TRUE" >>, << "0" >>}

\* one command thread; the toggle has any of its values
InitAuth ==
    /\ Start
    /\ wait = Wait0
    /\ doctor = Doctor0
    /\ Standalone0
    /\ \E value \in AuthValues :
          cfg = [cmds |-> [t \in Threads |-> IF t = "t1" THEN {"engine_start"} ELSE {}],
                 calls |-> AuthCalls, chunks |-> 0,
                 exits |-> AuthExits, procs |-> AuthProcs, auth |-> value,
              dirs |-> {WorkDir}]

\* engine_start, the children it spawns and their multiplexer tasks
NextAuth ==
    \/ \E p \in Pids, ev \in ExitEvents : ProcExit(p, ev)
    \/ \E p \in Pids : ProcDie(p)
    \/ \E p \in Pids : MuxStep(p)
    \/ \E t \in Threads, r \in Runtimes : Call(t, "engine_start", r, "es_lock")
    \/ \E t \in Threads : StartStep(t)

SpecAuth == InitAuth /\ [][NextAuth]_vars

\* the processes a call of engine_start has spawned
SpawnedBy(id) == {p \in Pids : proc[p].kind # "none" /\ proc[p].call = id
                               /\ proc[p].by = "engine_start"}

C32_WitnessOff ==
    \E t \in Threads :
       /\ ret[t].cmd = "engine_start" /\ ret[t].ok /\ pc[t] = "idle"
       /\ cfg.auth = << "0" >>
       /\ engine.base_url = ret[t].id
       /\ engine.opencode_username = NoCred /\ engine.opencode_password = NoCred
       /\ {proc[p].kind : p \in SpawnedBy(ret[t].id)} = {"engine", "openwork", "owpenbot"}
       /\ \A p \in SpawnedBy(ret[t].id) : proc[p].password = NoCred

\* the processes of call id that are alive or that a manager still holds
LeftBehind(id, os_proc, children) ==
    {p \in Pids : /\ os_proc[p].kind # "none" /\ os_proc[p].call = id
                  /\ os_proc[p].by = "engine_start"
                  /\ (os_proc[p].status = "alive" \/ p \in children)}

\* C33: whenever engine_start returns an error after it has spawned a process
\* (the primary exited during warm-up, the daemon's health request timed out,
\* the daemon's health payload has no engine status), no process the call
\* spawned is alive and no manager holds one of them.
C33_FailedStartLeavesNothing ==
    [][\A t \in Threads :
          (/\ loc[t].cmd = "engine_start"
           /\ pc[t] \in {"es_warmup", "es_d_health"}
           /\ pc'[t] = "idle" /\ ~ret'[t].ok
           /\ SpawnedBy(loc[t].id) # {})
          => LeftBehind(loc[t].id, proc',
                        {engine'.child, openwrk'.child, openwork'.child,
                         owpenbot'.child}) = {}]_vars

\* C34: an event of a previous child never changes the lifecycle state of a
\* newer child: a manager that holds a child and has child_exited set holds a
\* child that is not alive, so that snapshot never drops the handle of a live
\* process and reports it as not running.
C34_ExitFlagBelongsToTheHeldChild ==
    \A k \in {"engine", "openwrk", "owpenbot"} :
       (ChildOf(k) # None /\ StateOf(k).child_exited) => ~Alive(ChildOf(k))

(***************************************************************************)
(* Two engine_start calls in daemon mode at the same time: each one        *)
(* releases the engine lock (commands/engine.rs line 268) before it spawns *)
(* its daemon and registers it (lines 286-297).                            *)
(***************************************************************************)
DaemonCalls == 2

DaemonProcs == 4

InitDaemons ==
    /\ Start
    /\ wait = Wait0
    /\ doctor = Doctor0
    /\ Standalone0
    /\ cfg = [cmds |-> [t \in Threads |-> {"engine_start"}],
              calls |-> DaemonCalls, chunks |-> 0,
              exits |-> 0, procs |-> DaemonProcs, auth |-> Unset,
              dirs |-> {WorkDir}]

\* the steps of a daemon-mode engine_start after its call
DaemonStep(t) ==
    \/ EsLock(t)
    \/ \E found \in BOOLEAN : EsOpenwrk(t, found)
    \/ \E ok \in BOOLEAN : EsDSpawn(t, ok)
    \/ EsDRegister(t)
    \/ \E res \in HealthResults : EsDHealth(t, res)
    \/ \E hp_ok \in BOOLEAN : EsDEngine(t, hp_ok)
    \/ \E ok \in BOOLEAN : EsOpenwork(t, ok)
    \/ EsRecOpenwork(t)
    \/ EsBotLock(t)
    \/ \E res \in BotResults : EsBotSpawn(t, res)
    \/ EsBotReturn(t)
    \/ EsRecOwpenbot(t)

NextDaemons ==
    \/ \E p \in Pids : ProcDie(p)
    \/ \E p \in Pids : MuxOpenwrk(p)
    \/ \E p \in Pids : MuxOwpenbot(p)
    \/ \E p \in Pids : MuxOpenwork(p)
    \/ \E t \in Threads : Call(t, "engine_start", "openwrk", "es_lock")
    \/ \E t \in Threads : DaemonStep(t)

SpecDaemons == InitDaemons /\ [][NextDaemons]_vars

\* the daemons that are running
LiveDaemons == {p \in Pids : proc[p].kind = "openwrk" /\ Alive(p)}

\* both calls have returned
BothReturned == \A t \in Threads : pc[t] = "idle" /\ Len(ret[t].hist) = 1

\* C35: for every interleaving of two concurrent daemon-mode engine_start
\* calls, once both have returned at most one daemon is alive and it is the
\* one the daemon manager holds: no spawned daemon has lost its handle
\* without having been killed.
C35_OneDaemonAndItIsHeld ==
    BothReturned => /\ Cardinality(LiveDaemons) <= 1
                    /\ \A p \in LiveDaemons : openwrk.child = p

(***************************************************************************)
(* The six commands on two threads at the same time, for the order in      *)
(* which they lock the managers: engine, daemon, gateway server, bot.      *)
(***************************************************************************)
LockCalls == 2

LockProcs == 2

LockExits == 1

InitLocks ==
    /\ Start
    /\ wait = Wait0
    /\ doctor = Doctor0
    /\ Standalone0
    /\ cfg = [cmds |-> [t \in Threads |-> Commands],
              calls |-> LockCalls, chunks |-> 0,
              exits |-> LockExits, procs |-> LockProcs, auth |-> Unset,
              dirs |-> {WorkDir}]

NextLocks ==
    \/ \E p \in Pids, ev \in ExitEvents : ProcExit(p, ev)
    \/ \E p \in Pids : ProcDie(p)
    \/ \E p \in Pids : MuxStep(p)
    \/ \E t \in Threads, r \in Runtimes : Call(t, "engine_start", r, "es_lock")
    \/ \E t \in Threads : Call(t, "engine_stop", "direct", "st_lock")
    \/ \E t \in Threads : Call(t, "engine_info", "direct", "ei_lock")
    \/ \E t \in Threads : Call(t, "owpenbot_start", "direct", "ob_lock")
    \/ \E t \in Threads : Call(t, "owpenbot_stop", "direct", "ob_stop")
    \/ \E t \in Threads : Call(t, "owpenbot_info", "direct", "ob_info")
    \/ \E t \in Threads : CommandStep(t)

SpecLocks == InitLocks /\ [][NextLocks]_vars

\* the thread is inside a command
Running(t) == pc[t] # "idle"

\* C36: the commands lock the managers in one order and never lock again a
\* mutex they hold, so no interleaving of concurrent commands deadlocks:
\* whenever a command is under way, some command can take its next step.
C36_NoDeadlock ==
    (\E t \in Threads : Running(t)) => (\E t \in Threads : ENABLED CommandStep(t))

\* one thread is inside engine_start with the engine lock and waits for the
\* lock of the bot manager, which the owpenbot_start of the other thread holds
C36_Witness ==
    \E t, u \in Threads :
       /\ t # u
       /\ pc[t] = "es_bot_lock" /\ lock["engine"] = t
       /\ loc[u].cmd = "owpenbot_start" /\ lock["owpenbot"] = u
       /\ ~ENABLED CommandStep(t)
       /\ ENABLED CommandStep(u)

(***************************************************************************)
(* truncate_output (src-tauri/src/lib.rs lines 862-869) on its own: a call *)
(* with a text and a cap, in a build with or without overflow checks.      *)
(***************************************************************************)
TruncLen == 3

TruncCap == 3

TruncChars == {"a", "é"}

TruncInputs == UNION {[1..n -> TruncChars] : n \in 0..TruncLen}

\* the usize subtraction chars().count() - max_chars goes below zero
Underflows(input, max_chars) == ByteLen(input) > max_chars /\ Len(input) < max_chars

\* a call of truncate_output is under way; overflow_checks tells the debug
\* build from the release build
InitTrunc ==
    /\ Start
    /\ wait = Wait0
    /\ doctor = Doctor0
    /\ xdg = Xdg0
    /\ workspaces = Workspaces0
    /\ cfg = [cmds |-> [t \in Threads |-> {}], calls |-> 0, chunks |-> 0,
              exits |-> 0, procs |-> 0, auth |-> Unset,
              dirs |-> {WorkDir}]
    /\ \E input \in TruncInputs, max_chars \in 0..TruncCap, checks \in BOOLEAN :
          trunc = [pc |-> "called", input |-> input, max_chars |-> max_chars,
                   overflow_checks |-> checks, out |-> <<>>]

\* the call returns the string it built
TruncReturn ==
    /\ trunc.pc = "called"
    /\ ~(Underflows(trunc.input, trunc.max_chars) /\ trunc.overflow_checks)
    /\ trunc' = [trunc EXCEPT !.pc = "returned",
                              !.out = truncate_output(trunc.input, trunc.max_chars)]
    /\ UNCHANGED << system, wait, doctor, xdg, workspaces >>

\* 'attempt to subtract with overflow': the subtraction panics in a build with
\* overflow checks
TruncPanic ==
    /\ trunc.pc = "called"
    /\ Underflows(trunc.input, trunc.max_chars)
    /\ trunc.overflow_checks
    /\ trunc' = [trunc EXCEPT !.pc = "panicked"]
    /\ UNCHANGED << system, wait, doctor, xdg, workspaces >>

NextTrunc == TruncReturn \/ TruncPanic

SpecTrunc == InitTrunc /\ [][NextTrunc]_vars

\* the last n characters of s, all of s when it has no more than n
LastChars(s, n) == IF Len(s) <= n THEN s ELSE SubSeq(s, Len(s) - n + 1, Len(s))

\* C37: truncate_output(input, max_chars) never fails; it returns the input
\* unchanged when the input has at most max_chars characters and exactly its
\* last max_chars characters otherwise, for every input, multi-byte text
\* included.
C37_TailWithinTheCap ==
    trunc.pc \notin {"idle", "called"}
    => /\ trunc.pc = "returned"
       /\ trunc.out = LastChars(trunc.input, trunc.max_chars)

(***************************************************************************)
(* engine_start and its project directory (commands/engine.rs lines        *)
(* 189-210): the argument is trimmed and checked before anything else.     *)
(***************************************************************************)
DirCalls == 2

DirProcs == 3

DirExits == 1

\* project directories: a name, a name between spaces, spaces only, nothing
ProjectDirs == {WorkDir, << " ", "w", " " >>, << " ", " " >>, << >>}

InitDir ==
    /\ Start
    /\ wait = Wait0
    /\ doctor = Doctor0
    /\ Standalone0
    /\ cfg = [cmds |-> [t \in Threads |-> IF t = "t1" THEN {"engine_start"} ELSE {}],
              calls |-> DirCalls, chunks |-> 0,
              exits |-> DirExits, procs |-> DirProcs, auth |-> Unset,
              dirs |-> ProjectDirs]

SpecDir == InitDir /\ [][NextAuth]_vars

\* the step is a call of engine_start by thread t
CallsEngineStart(t) ==
    /\ pc[t] = "idle" /\ calls' = calls + 1
    /\ \/ loc'[t].cmd = "engine_start"
       \/ (pc'[t] = "idle" /\ ret'[t].cmd = "engine_start" /\ ret'[t].id = calls')

\* C38: an engine_start whose project_dir is empty after trimming returns
\* 'projectDir is required' and changes no manager's state: no running
\* process is stopped, none is spawned, no directory or configuration file
\* is created. A call that goes on has a project_dir that is not empty.
C38_BlankProjectDirChangesNothing ==
    [][\A t \in Threads :
          CallsEngineStart(t)
          => IF pc'[t] = "idle"
             THEN /\ ~ret'[t].ok /\ ret'[t].err = ProjectDirRequired
                  /\ UNCHANGED << proc, rx, engine, openwrk, openwork, owpenbot, lock,
                                  output_state, fs >>
             ELSE /\ loc'[t].project_dir # <<>>
                  /\ loc'[t].project_dir = Trim(loc'[t].project_dir)
                  /\ ProjectFiles(loc'[t].project_dir) \subseteq fs']_vars

\* a first engine_start has left its processes running and its files on the
\* disk; a second one with a blank project_dir was rejected and all of it is
\* still there
C38_Witness ==
    \E t \in Threads :
       /\ pc[t] = "idle" /\ Len(ret[t].hist) = 2
       /\ ret[t].hist[1].ok
       /\ ret[t].err = ProjectDirRequired
       /\ RegisteredRunning("engine") /\ RegisteredRunning("owpenbot")
       /\ fs = ProjectFiles(WorkDir)

(***************************************************************************)
(* The workspace commands (commands/workspace.rs lines 15-232) and the     *)
(* state they persist in openwork-workspaces.json (workspace/state.rs).    *)
(* A text is a sequence of tokens, " " is white space; an id is a text.    *)
(***************************************************************************)
StarterPath == << "/data/workspaces/starter" >>

\* folder paths of workspace_create, base URLs of workspace_create_remote
FolderPaths == {<< >>, << " ", "/a", " " >>, << "/b" >>, << "/c" >>}

BaseUrls == {<< >>, << "ftp://", "h" >>, << " ", "http://", "h" >>}

\* DefaultHasher over the path: different paths can hash to the same id
\* ("/a" and "/c" do here)
stable_workspace_id(path) ==
    CASE path = StarterPath -> << "ws-0" >>
      [] path = << "/a" >> -> << "ws-1" >>
      [] path = << "/b" >> -> << "ws-2" >>
      [] path = << "/c" >> -> << "ws-1" >>
      [] OTHER -> << "ws-3" >>

\* the id of a remote workspace is derived from its base URL
stable_workspace_id_for_remote(base_url) ==
    IF base_url[1] = "http://" THEN << "ws-r1" >> ELSE << "ws-r2" >>

\* ensure_starter_workspace
Starter == [id |-> stable_workspace_id(StarterPath), path |-> StarterPath,
            workspace_type |-> "local"]

\* WorkspaceStateV1::default(), which load_workspace_state returns when the
\* file does not exist
WorkspaceStateV1_default == [workspaces |-> << >>, active_id |-> << >>]

\* ids the commands are called with: none, blank, ids of the hashes, with
\* white space around them, an id no workspace has
WorkspaceIds == {<< >>, << " " >>, << "ws-0" >>, << " ", "ws-1", " " >>, << "ws-9" >>}

\* what the file system and the watcher do to a command: all goes well, a
\* step before save_workspace_state fails, update_workspace_watch fails
IoOutcomes == {"ok", "fails_before_save", "watch_fails"}

IdsOf(list) == {list[i].id : i \in 1..Len(list)}

HasId(list, id) == \E i \in 1..Len(list) : list[i].id = id

\* state.workspaces.retain(|w| w.id != id)
RECURSIVE Retain(_, _)
Retain(list, id) ==
    IF list = << >> THEN << >>
    ELSE IF Head(list).id = id THEN Retain(Tail(list), id)
    ELSE << Head(list) >> \o Retain(Tail(list), id)

StartsWithScheme(url) == url # << >> /\ url[1] \in {"http://", "https://"}

\* the result of a command: Err(text) leaves the file as it is
WsErr(cmd, arg, text) ==
    [workspaces EXCEPT !.last = [cmd |-> cmd, arg |-> arg, ok |-> FALSE, err |-> text]]

\* save_workspace_state, then update_workspace_watch, then Ok(list)
WsSave(cmd, arg, state, io) ==
    IF io = "fails_before_save" THEN WsErr(cmd, arg, << "io error" >>)
    ELSE [workspaces EXCEPT !.file = state,
             !.last = [cmd |-> cmd, arg |-> arg, ok |-> io = "ok",
                       err |-> IF io = "ok" THEN << >> ELSE << "watch error" >>]]

\* no command has run; the file does not exist
InitWorkspace ==
    /\ Start
    /\ wait = Wait0
    /\ doctor = Doctor0
    /\ xdg = Xdg0
    /\ trunc = Trunc0
    /\ cfg = [cmds |-> [t \in Threads |-> {}], calls |-> 0, chunks |-> 0,
              exits |-> 0, procs |-> 0, auth |-> Unset, dirs |-> {WorkDir}]
    /\ workspaces = [pc |-> "ready", file |-> WorkspaceStateV1_default,
                     bootstrapped |-> FALSE,
                     last |-> [cmd |-> "none", arg |-> << >>, ok |-> TRUE, err |-> << >>]]

\* workspace_bootstrap, lines 15-46
workspace_bootstrap(io) ==
    /\ workspaces.pc = "ready"
    /\ LET state == workspaces.file
           pushed == IF HasId(state.workspaces, Starter.id) THEN state.workspaces
                     ELSE Append(state.workspaces, Starter)
           active1 == IF Trim(state.active_id) = << >> THEN Starter.id
                      ELSE state.active_id
           active2 == IF HasId(pushed, active1) THEN active1 ELSE Starter.id
           saved == WsSave("workspace_bootstrap", << >>,
                           [workspaces |-> pushed, active_id |-> active2], io)
       IN workspaces' = [saved EXCEPT !.bootstrapped =
                            workspaces.bootstrapped \/ io # "fails_before_save"]
    /\ UNCHANGED << system, wait, doctor, xdg, trunc >>

\* the mutant of workspace_forget: the list may be left empty
workspace_forget_last(workspace_id, io) ==
    /\ workspaces.pc = "ready"
    /\ LET state == workspaces.file
           id == Trim(workspace_id)
           kept == Retain(state.workspaces, id)
           active == IF state.active_id = id
                     THEN (IF kept = << >> THEN << >> ELSE kept[1].id)
                     ELSE state.active_id
       IN workspaces' =
             IF id = << >>
             THEN WsErr("workspace_forget", workspace_id, << "workspaceId is required" >>)
             ELSE IF Len(kept) = Len(state.workspaces)
             THEN WsErr("workspace_forget", workspace_id, << "Unknown workspaceId" >>)
             ELSE WsSave("workspace_forget", workspace_id,
                         [workspaces |-> kept, active_id |-> active], io)
    /\ UNCHANGED << system, wait, doctor, xdg, trunc >>

\* workspace_forget, lines 48-92
workspace_forget(workspace_id, io) ==
    /\ workspaces.pc = "ready"
    /\ LET state == workspaces.file
           id == Trim(workspace_id)
           kept == Retain(state.workspaces, id)
           active == IF state.active_id = id
                     THEN (IF kept = << >> THEN << >> ELSE kept[1].id)
                     ELSE state.active_id
       IN workspaces' =
             IF id = << >>
             THEN WsErr("workspace_forget", workspace_id, << "workspaceId is required" >>)
             ELSE IF Len(kept) = Len(state.workspaces)
             THEN WsErr("workspace_forget", workspace_id, << "Unknown workspaceId" >>)
             ELSE IF kept = << >>
             THEN WsSave("workspace_forget", workspace_id,
                         [workspaces |-> << Starter >>, active_id |-> Starter.id], io)
             ELSE WsSave("workspace_forget", workspace_id,
                         [workspaces |-> kept, active_id |-> active], io)
    /\ UNCHANGED << system, wait, doctor, xdg, trunc >>

\* workspace_set_active, lines 94-122
workspace_set_active(workspace_id, io) ==
    /\ workspaces.pc = "ready"
    /\ LET state == workspaces.file
           id == Trim(workspace_id)
       IN workspaces' =
             IF id = << >>
             THEN WsErr("workspace_set_active", workspace_id,
                        << "workspaceId is required" >>)
             ELSE IF ~HasId(state.workspaces, id)
             THEN WsErr("workspace_set_active", workspace_id, << "Unknown workspaceId" >>)
             ELSE WsSave("workspace_set_active", workspace_id,
                         [state EXCEPT !.active_id = id], io)
    /\ UNCHANGED << system, wait, doctor, xdg, trunc >>

\* workspace_create, lines 124-177 (the name is given)
workspace_create(folder_path, io) ==
    /\ workspaces.pc = "ready"
    /\ LET state == workspaces.file
           folder == Trim(folder_path)
           id == stable_workspace_id(folder)
           entry == [id |-> id, path |-> folder, workspace_type |-> "local"]
       IN workspaces' =
             IF folder = << >>
             THEN WsErr("workspace_create", folder_path, << "folderPath is required" >>)
             ELSE WsSave("workspace_create", folder_path,
                         [workspaces |-> Append(Retain(state.workspaces, id), entry),
                          active_id |-> id], io)
    /\ UNCHANGED << system, wait, doctor, xdg, trunc >>

\* workspace_create_remote, lines 179-232 (no directory, no display name)
workspace_create_remote(base_url, io) ==
    /\ workspaces.pc = "ready"
    /\ LET state == workspaces.file
           url == Trim(base_url)
           id == stable_workspace_id_for_remote(url)
           entry == [id |-> id, path |-> << >>, workspace_type |-> "remote"]
       IN workspaces' =
             IF url = << >>
             THEN WsErr("workspace_create_remote", base_url, << "baseUrl is required" >>)
             ELSE IF ~StartsWithScheme(url)
             THEN WsErr("workspace_create_remote", base_url,
                        << "baseUrl must start with http:// or https://" >>)
             ELSE WsSave("workspace_create_remote", base_url,
                         [workspaces |-> Append(Retain(state.workspaces, id), entry),
                          active_id |-> id], io)
    /\ UNCHANGED << system, wait, doctor, xdg, trunc >>

NextWorkspace ==
    \/ \E io \in IoOutcomes : workspace_bootstrap(io)
    \/ \E id \in WorkspaceIds, io \in IoOutcomes : workspace_forget(id, io)
    \/ \E id \in WorkspaceIds, io \in IoOutcomes : workspace_set_active(id, io)
    \/ \E path \in FolderPaths, io \in IoOutcomes : workspace_create(path, io)
    \/ \E url \in BaseUrls, io \in IoOutcomes : workspace_create_remote(url, io)

SpecWorkspace == InitWorkspace /\ [][NextWorkspace]_vars

\* the list has no two workspaces with the same id
DistinctIds(list) == \A i, j \in 1..Len(list) : list[i].id = list[j].id => i = j

\* the step is a workspace_set_active or a workspace_forget with an id that
\* is empty after trimming or that no persisted workspace has
RejectedId ==
    /\ workspaces'.last.cmd \in {"workspace_set_active", "workspace_forget"}
    /\ workspaces'.last # workspaces.last \/ workspaces'.file # workspaces.file
    /\ ~HasId(workspaces.file.workspaces, Trim(workspaces'.last.arg))

\* after the bootstrap the persisted list is not empty, its ids are pairwise
\* distinct and active_id is one of them
PersistedStateIsWellFormed ==
    workspaces.pc = "ready" /\ workspaces.bootstrapped
    => /\ workspaces.file.workspaces # << >>
       /\ DistinctIds(workspaces.file.workspaces)
       /\ HasId(workspaces.file.workspaces, workspaces.file.active_id)

\* a rejected id is answered with an error and the file stays as it is
RejectedIdChangesNothing ==
    RejectedId => (~workspaces'.last.ok /\ workspaces'.file = workspaces.file)

\* C39: after workspace_bootstrap and any later sequence of workspace_create,
\* workspace_create_remote, workspace_set_active and workspace_forget, the
\* persisted state has a non-empty list of workspaces with pairwise distinct
\* ids and an active_id that is the id of a workspace of the list; and
\* workspace_set_active and workspace_forget with an empty or unknown id
\* return an error and leave the persisted state unchanged.
C39_WorkspaceStateStaysWellFormed ==
    []PersistedStateIsWellFormed /\ [][RejectedIdChangesNothing]_vars

\* three workspaces are persisted after the bootstrap, the last workspace was
\* forgotten by its id, and the starter is not among them any more
C39_Witness ==
    /\ workspaces.pc = "ready" /\ workspaces.bootstrapped
    /\ Len(workspaces.file.workspaces) = 3
    /\ ~HasId(workspaces.file.workspaces, Starter.id)
    /\ workspaces.last.cmd = "workspace_forget" /\ workspaces.last.ok
====
